---- MODULE Spec2Model ----
(***************************************************************************)
(* Model of the product-notification service: the in-memory store          *)
(* (MemStorage), its notification factory with template interpolation,     *)
(* and the REST handlers registered by registerRoutes.                      *)
(*                                                                         *)
(* Text values are sequences of one-character strings, so that the global  *)
(* regular-expression replacements of the interpolation are computed       *)
(* character by character.  A value that may be null or undefined in the   *)
(* program is a sequence of length at most one: None or Some(x).  An       *)
(* object with optional keys is a record whose domain holds the keys that  *)
(* are present.                                                            *)
(***************************************************************************)
EXTENDS Integers, Sequences, FiniteSets, TLC

\* ---------------------------------------------------------------- bounds
\* Requests (API level) or method calls (store level) in one behaviour.
MaxRequests == 2
\* Largest value the wall clock reaches; the unit of time is oneWeek.
MaxClock == 2

\* ------------------------------------------------------- optional values
None == <<>>
Some(x) == <<x>>
IsSome(o) == o # <<>>
\* o.value, for an o that is present
Get(o) == o[1]
\* JavaScript's  o || d  for an optional text o: d when o is null, undefined
\* or the empty string.
OrElse(o, d) == IF IsSome(o) /\ Get(o) # <<>> THEN Get(o) ELSE d

\* ------------------------------------------------------------------ text

\* The literal texts matched by the seven regular expressions of the
\* interpolation, /\{\{customer\.name\}\}/g and so on.
\* "{{customer.name}}"
customerNameToken ==
  <<"{","{","c","u","s","t","o","m","e","r",".","n","a","m","e","}","}">>
\* "{{customer.email}}"
customerEmailToken ==
  <<"{","{","c","u","s","t","o","m","e","r",".","e","m","a","i","l","}","}">>
\* "{{customer.phoneNumber}}"
customerPhoneNumberToken ==
  <<"{","{","c","u","s","t","o","m","e","r",".","p","h","o","n","e","N","u","m","b","e","r","}","}">>
\* "{{product.name}}"
productNameToken ==
  <<"{","{","p","r","o","d","u","c","t",".","n","a","m","e","}","}">>
\* "{{product.description}}"
productDescriptionToken ==
  <<"{","{","p","r","o","d","u","c","t",".","d","e","s","c","r","i","p","t","i","o","n","}","}">>
\* "{{product.storeLink}}"
productStoreLinkToken ==
  <<"{","{","p","r","o","d","u","c","t",".","s","t","o","r","e","L","i","n","k","}","}">>
\* "{{product.thumbnailUrl}}"
productThumbnailUrlToken ==
  <<"{","{","p","r","o","d","u","c","t",".","t","h","u","m","b","n","a","i","l","U","r","l","}","}">>

\* "Default notification message"
defaultNotificationMessage ==
  <<"D","e","f","a","u","l","t"," ","n","o","t","i","f","i","c","a","t","i","o","n"," ","m","e","s","s","a","g","e">>

\* ----------------------------------------------------------- sample data
\* The records initializeSampleData inserts, in order.
sampleCustomers == <<
  \* John Smith, john@example.com, +1-555-0123
  [name |-> <<"J","o","h","n"," ","S","m","i","t","h">>,
   email |-> <<"j","o","h","n","@","e","x","a","m","p","l","e",".","c","o","m">>,
   phoneNumber |-> <<"+","1","-","5","5","5","-","0","1","2","3">>],
  \* Sarah Johnson, sarah@example.com, +1-555-0124
  [name |-> <<"S","a","r","a","h"," ","J","o","h","n","s","o","n">>,
   email |-> <<"s","a","r","a","h","@","e","x","a","m","p","l","e",".","c","o","m">>,
   phoneNumber |-> <<"+","1","-","5","5","5","-","0","1","2","4">>],
  \* Mike Wilson, mike@example.com, +44-20-7946-0958
  [name |-> <<"M","i","k","e"," ","W","i","l","s","o","n">>,
   email |-> <<"m","i","k","e","@","e","x","a","m","p","l","e",".","c","o","m">>,
   phoneNumber |-> <<"+","4","4","-","2","0","-","7","9","4","6","-","0","9","5","8">>],
  \* Emily Davis, emily@example.com, +33-1-42-86-83-26
  [name |-> <<"E","m","i","l","y"," ","D","a","v","i","s">>,
   email |-> <<"e","m","i","l","y","@","e","x","a","m","p","l","e",".","c","o","m">>,
   phoneNumber |-> <<"+","3","3","-","1","-","4","2","-","8","6","-","8","3","-","2","6">>] >>

sampleProducts == <<
  \* iPhone 15 Pro
  [name |-> <<"i","P","h","o","n","e"," ","1","5"," ","P","r","o">>,
   description |-> Some(<<"L","a","t","e","s","t"," ","f","l","a","g","s","h","i","p"," ","s","m","a","r","t","p","h","o","n","e"," ","w","i","t","h"," ","t","i","t","a","n","i","u","m"," ","d","e","s","i","g","n">>),
   storeLink |-> Some(<<"h","t","t","p","s",":","/","/","a","p","p","l","e",".","c","o","m","/","i","p","h","o","n","e","-","1","5","-","p","r","o">>),
   thumbnailUrl |-> Some(<<"h","t","t","p","s",":","/","/","s","t","o","r","e",".","s","t","o","r","e","i","m","a","g","e","s",".","c","d","n","-","a","p","p","l","e",".","c","o","m","/","4","9","8","2","/","a","s","-","i","m","a","g","e","s",".","a","p","p","l","e",".","c","o","m","/","i","s","/","i","p","h","o","n","e","-","1","5","-","p","r","o","-","f","i","n","i","s","h","-","s","e","l","e","c","t","-","2","0","2","3","0","9","-","6","-","1","i","n","c","h","-","n","a","t","u","r","a","l","t","i","t","a","n","i","u","m",".","j","p","g">>),
   isActive |-> 1],
  \* MacBook Air M2
  [name |-> <<"M","a","c","B","o","o","k"," ","A","i","r"," ","M","2">>,
   description |-> Some(<<"T","h","i","n"," ","a","n","d"," ","l","i","g","h","t"," ","l","a","p","t","o","p"," ","w","i","t","h"," ","M","2"," ","c","h","i","p">>),
   storeLink |-> Some(<<"h","t","t","p","s",":","/","/","a","p","p","l","e",".","c","o","m","/","m","a","c","b","o","o","k","-","a","i","r","-","m","2">>),
   thumbnailUrl |-> Some(<<"h","t","t","p","s",":","/","/","s","t","o","r","e",".","s","t","o","r","e","i","m","a","g","e","s",".","c","d","n","-","a","p","p","l","e",".","c","o","m","/","4","9","8","2","/","a","s","-","i","m","a","g","e","s",".","a","p","p","l","e",".","c","o","m","/","i","s","/","m","a","c","b","o","o","k","-","a","i","r","-","m","i","d","n","i","g","h","t","-","s","e","l","e","c","t","-","2","0","2","2","0","6","0","6",".","j","p","g">>),
   isActive |-> 1],
  \* AirPods Pro
  [name |-> <<"A","i","r","P","o","d","s"," ","P","r","o">>,
   description |-> Some(<<"W","i","r","e","l","e","s","s"," ","e","a","r","b","u","d","s"," ","w","i","t","h"," ","n","o","i","s","e"," ","c","a","n","c","e","l","l","a","t","i","o","n">>),
   storeLink |-> Some(<<"h","t","t","p","s",":","/","/","a","p","p","l","e",".","c","o","m","/","a","i","r","p","o","d","s","-","p","r","o">>),
   thumbnailUrl |-> Some(<<"h","t","t","p","s",":","/","/","s","t","o","r","e",".","s","t","o","r","e","i","m","a","g","e","s",".","c","d","n","-","a","p","p","l","e",".","c","o","m","/","4","9","8","2","/","a","s","-","i","m","a","g","e","s",".","a","p","p","l","e",".","c","o","m","/","i","s","/","M","Q","D","8","3",".","j","p","g">>),
   isActive |-> 1],
  \* iPad Pro
  [name |-> <<"i","P","a","d"," ","P","r","o">>,
   description |-> Some(<<"P","r","o","f","e","s","s","i","o","n","a","l"," ","t","a","b","l","e","t"," ","w","i","t","h"," ","M","2"," ","c","h","i","p">>),
   storeLink |-> Some(<<"h","t","t","p","s",":","/","/","a","p","p","l","e",".","c","o","m","/","i","p","a","d","-","p","r","o">>),
   thumbnailUrl |-> Some(<<"h","t","t","p","s",":","/","/","s","t","o","r","e",".","s","t","o","r","e","i","m","a","g","e","s",".","c","d","n","-","a","p","p","l","e",".","c","o","m","/","4","9","8","2","/","a","s","-","i","m","a","g","e","s",".","a","p","p","l","e",".","c","o","m","/","i","s","/","i","p","a","d","-","p","r","o","-","1","2","-","s","e","l","e","c","t","-","w","i","f","i","-","s","p","a","c","e","g","r","a","y","-","2","0","2","2","1","0",".","j","p","g">>),
   isActive |-> 1] >>

sampleTemplates == <<
  \* Product Launch
  [name |-> <<"P","r","o","d","u","c","t"," ","L","a","u","n","c","h">>,
   template |-> <<"H","i"," ","{","{","c","u","s","t","o","m","e","r",".","n","a","m","e","}","}",","," ","e","x","c","i","t","i","n","g"," ","n","e","w","s","!"," ","W","e","'","v","e"," ","j","u","s","t"," ","l","a","u","n","c","h","e","d"," ","{","{","p","r","o","d","u","c","t",".","n","a","m","e","}","}"," ","-"," ","{","{","p","r","o","d","u","c","t",".","d","e","s","c","r","i","p","t","i","o","n","}","}","."," ","C","h","e","c","k"," ","i","t"," ","o","u","t"," ","a","t"," ","{","{","p","r","o","d","u","c","t",".","s","t","o","r","e","L","i","n","k","}","}","!">>,
   description |-> Some(<<"T","e","m","p","l","a","t","e"," ","f","o","r"," ","n","e","w"," ","p","r","o","d","u","c","t"," ","l","a","u","n","c","h","e","s">>),
   isDefault |-> 1],
  \* Product Update
  [name |-> <<"P","r","o","d","u","c","t"," ","U","p","d","a","t","e">>,
   template |-> <<"H","e","l","l","o"," ","{","{","c","u","s","t","o","m","e","r",".","n","a","m","e","}","}",","," ","w","e","'","v","e"," ","u","p","d","a","t","e","d"," ","{","{","p","r","o","d","u","c","t",".","n","a","m","e","}","}","!"," ","C","o","n","t","a","c","t"," ","u","s"," ","a","t"," ","{","{","c","u","s","t","o","m","e","r",".","p","h","o","n","e","N","u","m","b","e","r","}","}"," ","i","f"," ","y","o","u"," ","h","a","v","e"," ","q","u","e","s","t","i","o","n","s",".">>,
   description |-> Some(<<"T","e","m","p","l","a","t","e"," ","f","o","r"," ","p","r","o","d","u","c","t"," ","u","p","d","a","t","e","s">>),
   isDefault |-> 0],
  \* Special Offer
  [name |-> <<"S","p","e","c","i","a","l"," ","O","f","f","e","r">>,
   template |-> <<"D","e","a","r"," ","{","{","c","u","s","t","o","m","e","r",".","n","a","m","e","}","}",","," ","s","p","e","c","i","a","l"," ","o","f","f","e","r"," ","o","n"," ","{","{","p","r","o","d","u","c","t",".","n","a","m","e","}","}","!"," ","V","i","s","i","t"," ","{","{","p","r","o","d","u","c","t",".","s","t","o","r","e","L","i","n","k","}","}"," ","t","o"," ","l","e","a","r","n"," ","m","o","r","e",".">>,
   description |-> Some(<<"T","e","m","p","l","a","t","e"," ","f","o","r"," ","s","p","e","c","i","a","l"," ","o","f","f","e","r","s"," ","a","n","d"," ","p","r","o","m","o","t","i","o","n","s">>),
   isDefault |-> 0] >>

\* ------------------------------------------------- String.prototype.replace
\* The character U+0060 (grave accent), which a string literal cannot hold.
backtick == "U+0060"

\* The text  s  has  tok  at position i.
MatchAt(s, tok, i) ==
  /\ i + Len(tok) - 1 <= Len(s)
  /\ s[i] = tok[1]
  /\ SubSeq(s, i, i + Len(tok) - 1) = tok

\* What one match is replaced by when the replacement is given as a string,
\* from position k of the replacement on: "$$" inserts "$", "$&" the matched
\* text, "$" U+0060 the text before the match and "$'" the text after it.  The
\* expressions have no capture groups, so "$1", "$<" and a final "$" are
\* literal, as is every other character.
RECURSIVE GetSubstitution(_, _, _, _, _)
GetSubstitution(matched, str, position, replacement, k) ==
  LET dollars == {j \in k..Len(replacement) : replacement[j] = "$"}
  IN  IF dollars = {} THEN SubSeq(replacement, k, Len(replacement))
      ELSE
        LET d == CHOOSE j \in dollars : \A j2 \in dollars : j <= j2
            n == IF d < Len(replacement) THEN replacement[d + 1] ELSE ""
            before == SubSeq(replacement, k, d - 1)
            rest == GetSubstitution(matched, str, position, replacement, d + 2)
        IN  CASE n = "$" -> before \o <<"$">> \o rest
              [] n = "&" -> before \o matched \o rest
              [] n = backtick -> before \o SubSeq(str, 1, position - 1) \o rest
              [] n = "'" -> before \o SubSeq(str, position + Len(matched),
                                             Len(str)) \o rest
              [] OTHER -> before \o <<"$">>
                            \o GetSubstitution(matched, str, position,
                                               replacement, d + 1)

\* The scan of s.replace(/tok/g, replacement) from position i on: the text up
\* to the leftmost match at or after i is copied, the match is replaced, and
\* the scan resumes after the match.
RECURSIVE ReplaceFrom(_, _, _, _)
ReplaceFrom(s, tok, replacement, i) ==
  LET matches == {j \in i..Len(s) : MatchAt(s, tok, j)}
  IN  IF matches = {} THEN SubSeq(s, i, Len(s))
      ELSE LET m == CHOOSE j \in matches : \A j2 \in matches : j <= j2
           IN  SubSeq(s, i, m - 1)
                 \o GetSubstitution(tok, s, m, replacement, 1)
                 \o ReplaceFrom(s, tok, replacement, m + Len(tok))

\* s.replace(/tok/g, replacement)
replace(s, tok, replacement) == ReplaceFrom(s, tok, replacement, 1)

\* The chain of seven replacements applied to the template text for one
\* customer and the first product.
interpolateTemplate(template, customer, product) ==
  LET r1 == replace(template, customerNameToken, customer.name)
      r2 == replace(r1, customerEmailToken, customer.email)
      r3 == replace(r2, customerPhoneNumberToken,
                    OrElse(Some(customer.phoneNumber), <<>>))
      r4 == replace(r3, productNameToken, product.name)
      r5 == replace(r4, productDescriptionToken,
                    OrElse(product.description, <<>>))
      r6 == replace(r5, productStoreLinkToken,
                    OrElse(product.storeLink, <<>>))
  IN  replace(r6, productThumbnailUrlToken, OrElse(product.thumbnailUrl, <<>>))

\* ----------------------------------------------------------------- state
VARIABLES
  customers,                      \* Map<number, Customer>
  products,                       \* Map<number, Product>
  notifications,                  \* Map<number, Notification>
  notificationTemplates,          \* Map<number, NotificationTemplate>
  currentCustomerId,
  currentProductId,
  currentNotificationId,
  currentNotificationTemplateId,
  clock,                          \* the latest time new Date() has returned
  nreq,                           \* requests (or method calls) made so far
  resp,                           \* the last request and its answer
  issued,                         \* history: the ids each kind's creates returned
  tasks                           \* the handlers suspended at an await

store == <<customers, products, notifications, notificationTemplates,
           currentCustomerId, currentProductId, currentNotificationId,
           currentNotificationTemplateId>>
vars == <<customers, products, notifications, notificationTemplates,
          currentCustomerId, currentProductId, currentNotificationId,
          currentNotificationTemplateId, clock, nreq, resp, issued, tasks>>

\* map.set(key, value)
MapSet(map, key, value) ==
  [k \in DOMAIN map \cup {key} |-> IF k = key THEN value ELSE map[k]]
\* map.delete(key), the map afterwards
MapDelete(map, key) == [k \in DOMAIN map \ {key} |-> map[k]]
\* map.get(key)
MapGet(map, key) == IF key \in DOMAIN map THEN Some(map[key]) ELSE None
\* object.key, None when the key is absent
Field(object, key) == IF key \in DOMAIN object THEN Some(object[key]) ELSE None
\* { ...object, ...updates }
Spread(object, updates) == updates @@ object
Min(S) == CHOOSE x \in S : \A y \in S : x <= y
Max(S) == CHOOSE x \in S : \A y \in S : x >= y

\* ------------------------------------------------------------- MemStorage
\* Each method is an operator from the store (and the arguments) to what the
\* method returns and to the parts of the store it writes.

getCustomer(cs, id) == MapGet(cs, id)

\* getCustomerByEmail comparing the wrong field of the stored customer.
getCustomerByEmail_comparesName(cs, email) ==
  LET found == {id \in DOMAIN cs : cs[id].name = email}
  IN  IF found = {} THEN None ELSE Some(cs[Min(found)])

\* The first customer, in insertion order, with this email.  Ids are assigned
\* in increasing order and set() on a present key keeps its place, so
\* insertion order is id order.
getCustomerByEmail(cs, email) ==
  LET found == {id \in DOMAIN cs : cs[id].email = email}
  IN  IF found = {} THEN None ELSE Some(cs[Min(found)])

\* createCustomer taking the id after the largest id in the map.
createCustomer_afterLargestStored(cs, nextId, insertCustomer) ==
  LET id == IF DOMAIN cs = {} THEN 1 ELSE Max(DOMAIN cs) + 1
      customer == Spread(insertCustomer, [id |-> id])
  IN  [customers |-> MapSet(cs, id, customer),
       currentCustomerId |-> nextId + 1,
       ret |-> customer]

\* createCustomer reading the counter without advancing it.
createCustomer_noIncrement(cs, nextId, insertCustomer) ==
  LET id == nextId
      customer == Spread(insertCustomer, [id |-> id])
  IN  [customers |-> MapSet(cs, id, customer),
       currentCustomerId |-> nextId,
       ret |-> customer]

createCustomer(cs, nextId, insertCustomer) ==
  LET id == nextId
      customer == Spread(insertCustomer, [id |-> id])
  IN  [customers |-> MapSet(cs, id, customer),
       currentCustomerId |-> nextId + 1,
       ret |-> customer]

\* updateCustomer storing the provided fields only.
updateCustomer_providedOnly(cs, id, updates) ==
  IF id \notin DOMAIN cs THEN [customers |-> cs, ret |-> None]
  ELSE LET updatedCustomer == Spread([id |-> id], updates)
       IN  [customers |-> MapSet(cs, id, updatedCustomer),
            ret |-> Some(updatedCustomer)]

updateCustomer(cs, id, updates) ==
  IF id \notin DOMAIN cs THEN [customers |-> cs, ret |-> None]
  ELSE LET updatedCustomer == Spread(cs[id], updates)
       IN  [customers |-> MapSet(cs, id, updatedCustomer),
            ret |-> Some(updatedCustomer)]

\* deleteCustomer deleting the record and reporting that nothing was deleted.
deleteCustomer_reportsFalse(cs, id) ==
  [customers |-> MapDelete(cs, id), ret |-> FALSE]

deleteCustomer(cs, id) ==
  [customers |-> MapDelete(cs, id), ret |-> id \in DOMAIN cs]

getProduct(ps, id) == MapGet(ps, id)

\* x ?? null  for an optional key whose value is itself null or a text
OrNull(o) == IF IsSome(o) THEN Get(o) ELSE None

\* createProduct storing a product without isActive as inactive.
createProduct_inactiveByDefault(ps, nextId, insertProduct) ==
  LET id == nextId
      product ==
        [id |-> id,
         name |-> insertProduct.name,
         description |-> OrNull(Field(insertProduct, "description")),
         storeLink |-> OrNull(Field(insertProduct, "storeLink")),
         thumbnailUrl |-> OrNull(Field(insertProduct, "thumbnailUrl")),
         isActive |-> IF IsSome(Field(insertProduct, "isActive"))
                      THEN insertProduct.isActive ELSE 0]
  IN  [products |-> MapSet(ps, id, product),
       currentProductId |-> nextId + 1,
       ret |-> product]

createProduct(ps, nextId, insertProduct) ==
  LET id == nextId
      product ==
        [id |-> id,
         name |-> insertProduct.name,
         description |-> OrNull(Field(insertProduct, "description")),
         storeLink |-> OrNull(Field(insertProduct, "storeLink")),
         thumbnailUrl |-> OrNull(Field(insertProduct, "thumbnailUrl")),
         isActive |-> IF IsSome(Field(insertProduct, "isActive"))
                      THEN insertProduct.isActive ELSE 1]
  IN  [products |-> MapSet(ps, id, product),
       currentProductId |-> nextId + 1,
       ret |-> product]

updateProduct(ps, id, updates) ==
  IF id \notin DOMAIN ps THEN [products |-> ps, ret |-> None]
  ELSE LET updatedProduct == Spread(ps[id], updates)
       IN  [products |-> MapSet(ps, id, updatedProduct),
            ret |-> Some(updatedProduct)]

\* deleteProduct reporting the deletion and keeping the record.
deleteProduct_keepsRecord(ps, id) ==
  [products |-> ps, ret |-> id \in DOMAIN ps]

deleteProduct(ps, id) ==
  [products |-> MapDelete(ps, id), ret |-> id \in DOMAIN ps]

getNotificationTemplate(ts, id) == MapGet(ts, id)

createNotificationTemplate(ts, nextId, insertTemplate, now) ==
  LET id == nextId
      template ==
        [id |-> id,
         name |-> insertTemplate.name,
         template |-> insertTemplate.template,
         \* insertTemplate.description || null
         description |->
           LET d == OrNull(Field(insertTemplate, "description"))
           IN  IF IsSome(d) /\ Get(d) # <<>> THEN d ELSE None,
         isDefault |-> IF IsSome(Field(insertTemplate, "isDefault"))
                       THEN insertTemplate.isDefault ELSE 0,
         createdAt |-> now]
  IN  [notificationTemplates |-> MapSet(ts, id, template),
       currentNotificationTemplateId |-> nextId + 1,
       ret |-> template]

updateNotificationTemplate(ts, id, updates) ==
  IF id \notin DOMAIN ts THEN [notificationTemplates |-> ts, ret |-> None]
  ELSE LET updatedTemplate == Spread(ts[id], updates)
       IN  [notificationTemplates |-> MapSet(ts, id, updatedTemplate),
            ret |-> Some(updatedTemplate)]

\* deleteNotificationTemplate reporting a deletion whatever the id.
deleteNotificationTemplate_reportsTrue(ts, id) ==
  [notificationTemplates |-> MapDelete(ts, id), ret |-> TRUE]

deleteNotificationTemplate(ts, id) ==
  [notificationTemplates |-> MapDelete(ts, id), ret |-> id \in DOMAIN ts]

getNotification(ns, id) == MapGet(ns, id)

deleteNotification(ns, id) ==
  [notifications |-> MapDelete(ns, id), ret |-> id \in DOMAIN ns]

\* Array.from(map.values()): the records in the order their keys were first
\* set, which is the order of the ids, every id coming from a counter that
\* only grows.
Values(map) ==
  LET ids == DOMAIN map
      key(i) == CHOOSE id \in ids : Cardinality({x \in ids : x < id}) = i - 1
  IN  [i \in 1..Cardinality(ids) |-> map[key(i)]]

\* records.sort((a, b) => time(b) - time(a)) for a field holding a time: the
\* later record first, records of the same time in the order they had (the
\* sort is stable).
SortNewestFirst(records, field) ==
  LET n == Len(records)
      before(j, i) ==
        \/ records[j][field] > records[i][field]
        \/ records[j][field] = records[i][field] /\ j < i
      place(i) == Cardinality({j \in 1..n : before(j, i)}) + 1
  IN  [k \in 1..n |-> records[CHOOSE i \in 1..n : place(i) = k]]

getAllCustomers(cs) == Values(cs)

getAllProducts(ps) == Values(ps)

\* getActiveProducts returning every product.
getActiveProducts_unfiltered(ps) == Values(ps)

getActiveProducts(ps) ==
  SelectSeq(Values(ps), LAMBDA product : product.isActive = 1)

getAllNotifications(ns) == SortNewestFirst(Values(ns), "timestamp")

\* getNotificationsByDateRange leaving out the notifications of time to.
getNotificationsByDateRange_beforeTo(ns, from, to) ==
  SortNewestFirst(
    SelectSeq(Values(ns), LAMBDA notification :
      notification.timestamp >= from /\ notification.timestamp < to),
    "timestamp")

getNotificationsByDateRange(ns, from, to) ==
  SortNewestFirst(
    SelectSeq(Values(ns), LAMBDA notification :
      notification.timestamp >= from /\ notification.timestamp <= to),
    "timestamp")

\* getAllNotificationTemplates sorting the oldest first.
getAllNotificationTemplates_oldestFirst(ts) ==
  LET newestFirst == SortNewestFirst(Values(ts), "createdAt")
      n == Len(newestFirst)
  IN  [i \in 1..n |-> newestFirst[n + 1 - i]]

getAllNotificationTemplates(ts) == SortNewestFirst(Values(ts), "createdAt")

\* data.templateId as a condition: present and not 0
Truthy(o) == IF IsSome(o) THEN Get(o) # 0 ELSE FALSE

\* The body of the notification for one customer:
\*   template?.template || "Default notification message",
\* replaced by the interpolation when the template and the product exist.
notificationBody(template, product, customer) ==
  IF IsSome(template) /\ IsSome(product)
  THEN interpolateTemplate(Get(template).template, customer, Get(product))
  ELSE IF IsSome(template) /\ Get(template).template # <<>>
  THEN Get(template).template
  ELSE defaultNotificationMessage

\* The loop of createNotifications from entry i of data.customerIds on, with
\* the notifications map, the id counter and the list created so far.
RECURSIVE createNotificationsFrom(_, _, _, _, _, _, _, _, _)
createNotificationsFrom(cs, ps, template, data, now, i, ns, nextId, created) ==
  IF i > Len(data.customerIds)
  THEN [notifications |-> ns, currentNotificationId |-> nextId, ret |-> created]
  ELSE
    LET customer == getCustomer(cs, data.customerIds[i])
    IN  IF ~IsSome(customer)
        THEN createNotificationsFrom(cs, ps, template, data, now, i + 1,
                                     ns, nextId, created)
        ELSE
          LET product == IF Len(data.productIds) > 0
                         THEN getProduct(ps, data.productIds[1]) ELSE None
              id == nextId
              notification ==
                [id |-> id,
                 customerId |-> Get(customer).id,
                 customerEmail |-> Get(customer).email,
                 customerName |-> Get(customer).name,
                 customerPhone |-> Get(customer).phoneNumber,
                 notificationBody |->
                   notificationBody(template, product, Get(customer)),
                 \* data.templateId || null
                 templateId |-> IF Truthy(Field(data, "templateId"))
                                THEN Some(data.templateId) ELSE None,
                 productIds |-> data.productIds,
                 timestamp |-> now]
          IN  createNotificationsFrom(cs, ps, template, data, now, i + 1,
                                      MapSet(ns, id, notification), nextId + 1,
                                      Append(created, notification))

\* createNotifications looking at the first customer id only.
createNotifications_firstCustomerOnly(cs, ps, ts, ns, nextId, data, now) ==
  LET template == IF Truthy(Field(data, "templateId"))
                  THEN getNotificationTemplate(ts, data.templateId) ELSE None
      first == [data EXCEPT !.customerIds = IF Len(@) > 1 THEN <<@[1]>> ELSE @]
  IN  createNotificationsFrom(cs, ps, template, first, now, 1, ns, nextId, <<>>)

\* createNotifications taking the last product of the list for the first.
createNotifications_lastProduct(cs, ps, ts, ns, nextId, data, now) ==
  LET template == IF Truthy(Field(data, "templateId"))
                  THEN getNotificationTemplate(ts, data.templateId) ELSE None
      n == Len(data.productIds)
      last == [data EXCEPT !.productIds = [i \in 1..n |-> @[n + 1 - i]]]
  IN  createNotificationsFrom(cs, ps, template, last, now, 1, ns, nextId, <<>>)

\* createNotifications numbering the notifications of each call from 1.
createNotifications_numbersFromOne(cs, ps, ts, ns, nextId, data, now) ==
  LET template == IF Truthy(Field(data, "templateId"))
                  THEN getNotificationTemplate(ts, data.templateId) ELSE None
  IN  createNotificationsFrom(cs, ps, template, data, now, 1, ns, 1, <<>>)

createNotifications(cs, ps, ts, ns, nextId, data, now) ==
  LET template == IF Truthy(Field(data, "templateId"))
                  THEN getNotificationTemplate(ts, data.templateId) ELSE None
  IN  createNotificationsFrom(cs, ps, template, data, now, 1, ns, nextId, <<>>)

\* ------------------------------------------------------------ construction
\* new MemStorage(): the counters start at 1 and initializeSampleData creates
\* the sample customers, products and templates, in this order, at time now.
\* initializeSampleData leaving the third sample customer out.
initializeSampleData_withoutThird(now) ==
  LET c1 == createCustomer(<<>>, 1, sampleCustomers[1])
      c2 == createCustomer(c1.customers, c1.currentCustomerId, sampleCustomers[2])
      c4 == createCustomer(c2.customers, c2.currentCustomerId, sampleCustomers[4])
      p1 == createProduct(<<>>, 1, sampleProducts[1])
      p2 == createProduct(p1.products, p1.currentProductId, sampleProducts[2])
      p3 == createProduct(p2.products, p2.currentProductId, sampleProducts[3])
      p4 == createProduct(p3.products, p3.currentProductId, sampleProducts[4])
      t1 == createNotificationTemplate(<<>>, 1, sampleTemplates[1], now)
      t2 == createNotificationTemplate(t1.notificationTemplates,
              t1.currentNotificationTemplateId, sampleTemplates[2], now)
      t3 == createNotificationTemplate(t2.notificationTemplates,
              t2.currentNotificationTemplateId, sampleTemplates[3], now)
  IN  [customers |-> c4.customers,
       currentCustomerId |-> c4.currentCustomerId,
       products |-> p4.products,
       currentProductId |-> p4.currentProductId,
       notificationTemplates |-> t3.notificationTemplates,
       currentNotificationTemplateId |-> t3.currentNotificationTemplateId,
       notifications |-> <<>>,
       currentNotificationId |-> 1,
       issued |->
         [customers |-> <<c1.ret.id, c2.ret.id, c4.ret.id>>,
          products |-> <<p1.ret.id, p2.ret.id, p3.ret.id, p4.ret.id>>,
          notifications |-> <<>>,
          notificationTemplates |-> <<t1.ret.id, t2.ret.id, t3.ret.id>>]]

initializeSampleData(now) ==
  LET c1 == createCustomer(<<>>, 1, sampleCustomers[1])
      c2 == createCustomer(c1.customers, c1.currentCustomerId, sampleCustomers[2])
      c3 == createCustomer(c2.customers, c2.currentCustomerId, sampleCustomers[3])
      c4 == createCustomer(c3.customers, c3.currentCustomerId, sampleCustomers[4])
      p1 == createProduct(<<>>, 1, sampleProducts[1])
      p2 == createProduct(p1.products, p1.currentProductId, sampleProducts[2])
      p3 == createProduct(p2.products, p2.currentProductId, sampleProducts[3])
      p4 == createProduct(p3.products, p3.currentProductId, sampleProducts[4])
      t1 == createNotificationTemplate(<<>>, 1, sampleTemplates[1], now)
      t2 == createNotificationTemplate(t1.notificationTemplates,
              t1.currentNotificationTemplateId, sampleTemplates[2], now)
      t3 == createNotificationTemplate(t2.notificationTemplates,
              t2.currentNotificationTemplateId, sampleTemplates[3], now)
  IN  [customers |-> c4.customers,
       currentCustomerId |-> c4.currentCustomerId,
       products |-> p4.products,
       currentProductId |-> p4.currentProductId,
       notificationTemplates |-> t3.notificationTemplates,
       currentNotificationTemplateId |-> t3.currentNotificationTemplateId,
       notifications |-> <<>>,
       currentNotificationId |-> 1,
       issued |->
         [customers |-> <<c1.ret.id, c2.ret.id, c3.ret.id, c4.ret.id>>,
          products |-> <<p1.ret.id, p2.ret.id, p3.ret.id, p4.ret.id>>,
          notifications |-> <<>>,
          notificationTemplates |-> <<t1.ret.id, t2.ret.id, t3.ret.id>>]]

\* No request has been made.
noResponse == [op |-> "", req |-> <<>>, status |-> 0, message |-> "", body |-> <<>>]

Init ==
  LET s == initializeSampleData(0)
  IN  /\ customers = s.customers
      /\ products = s.products
      /\ notifications = s.notifications
      /\ notificationTemplates = s.notificationTemplates
      /\ currentCustomerId = s.currentCustomerId
      /\ currentProductId = s.currentProductId
      /\ currentNotificationId = s.currentNotificationId
      /\ currentNotificationTemplateId = s.currentNotificationTemplateId
      /\ clock = 0
      /\ nreq = 0
      /\ resp = noResponse
      /\ issued = s.issued
      /\ tasks = <<>>

\* ---------------------------------------------------------- request inputs
\* "Ana", "ana@example.com", "555"
anaName == <<"A","n","a">>
anaEmail == <<"a","n","a","@","e","x","a","m","p","l","e",".","c","o","m">>
anaPhone == <<"5","5","5">>
johnEmail == sampleCustomers[1].email
\* "Hi {{customer.name}}"
hiTemplate == <<"H","i"," ">> \o customerNameToken

\* A request body the schema rejects (parse throws a ZodError).
invalidBody == [valid |-> FALSE, data |-> <<>>]
ValidBodies(D) == {[valid |-> TRUE, data |-> d] : d \in D}

\* Path parameters: ids of sample records (for customers, one that is and one
\* that is not the latest created), the first id a create assigns, and (0) an
\* id that is never assigned.
CustomerIdInputs == {0, 2, 4, 5}
ProductIdInputs == {0, 1, 5}
TemplateIdInputs == {0, 1, 4}
NotificationIdInputs == {0, 1}

InsertCustomers ==
  {[name |-> anaName, email |-> e, phoneNumber |-> anaPhone] :
     e \in {johnEmail, anaEmail}}
PartialCustomers ==
  {<<>>, [email |-> johnEmail], [name |-> anaName, phoneNumber |-> anaPhone]}
InsertProducts ==
  {[name |-> anaName],
   [name |-> anaName, description |-> Some(anaName), storeLink |-> None,
    isActive |-> 0]}
PartialProducts == {[isActive |-> 0], [name |-> anaName, description |-> None]}
InsertTemplates ==
  {[name |-> anaName, template |-> <<>>],
   [name |-> anaName, template |-> hiTemplate, description |-> Some(anaName),
    isDefault |-> 1]}
PartialTemplates == {[template |-> <<>>], [name |-> anaName, isDefault |-> 1]}

\* A JSON value of the notification request body: an array of ids, or
\* anything else (absent, a string, a number).
JArray(items) == [isArray |-> TRUE, items |-> items]
notArray == [isArray |-> FALSE, items |-> <<>>]
\* The body of the README's example of POST /api/notifications:
\*   {"message": "New iPhone 15 is now available!",
\*    "productIds": [1, 2], "customerIds": [1, 2, 3]}
readmeMessage ==
  <<"N","e","w"," ","i","P","h","o","n","e"," ","1","5"," ","i","s"," ","n","o","w"," ","a","v","a","i","l","a","b","l","e","!">>
readmeBody ==
  [message |-> readmeMessage, productIds |-> JArray(<<1, 2>>),
   customerIds |-> JArray(<<1, 2, 3>>)]
\* Bodies of POST /api/notifications: the README's example; without templateId and with templateId
\* 0, 1 and 4; with lists that are missing, empty, of known ids, with a
\* repeated id and with an unknown id.
NotificationBodies ==
  {[productIds |-> JArray(<<1>>), customerIds |-> JArray(<<2, 1>>)],
   [productIds |-> JArray(<<2, 1>>), customerIds |-> JArray(<<2, 2>>),
    templateId |-> 1],
   [productIds |-> JArray(<<1>>), customerIds |-> JArray(<<5>>),
    templateId |-> 4],
   [productIds |-> JArray(<<5>>), customerIds |-> JArray(<<2>>),
    templateId |-> 4],
   [productIds |-> JArray(<<1>>), customerIds |-> JArray(<<2>>),
    templateId |-> 0],
   [productIds |-> JArray(<<1, 5>>), customerIds |-> JArray(<<2>>)],
   [productIds |-> JArray(<<1>>), customerIds |-> JArray(<<2, 5>>)],
   [productIds |-> JArray(<<1>>), customerIds |-> JArray(<<2>>),
    templateId |-> 5],
   [productIds |-> notArray, customerIds |-> JArray(<<2>>)],
   [productIds |-> JArray(<<>>), customerIds |-> JArray(<<2>>)],
   [productIds |-> JArray(<<1>>), customerIds |-> notArray],
   [productIds |-> JArray(<<1>>), customerIds |-> JArray(<<>>), templateId |-> 1],
   readmeBody}

\* A query parameter that is given: a text that new Date parses to a time, a
\* text it does not parse (Invalid Date), or the empty text, which it does
\* not parse either and which is falsy.
DateText(time) == [text |-> "date", time |-> time]
malformedDate == [text |-> "not-a-date", time |-> 0]
emptyText == [text |-> "", time |-> 0]
\* from && to
Given(query, key) == key \in DOMAIN query /\ query[key].text # ""
\* isNaN(new Date(text).getTime())
IsNaNDate(value) == value.text # "date"

\* req.query of GET /api/notifications: without parameters, with ranges that
\* hold all, some and none of the times, with a malformed or an empty
\* parameter next to a valid one, and with one parameter only.
NotificationQueries ==
  {<<>>,
   [from |-> DateText(0), to |-> DateText(MaxClock)],
   [from |-> DateText(1), to |-> DateText(1)],
   [from |-> DateText(0), to |-> DateText(0)],
   [from |-> DateText(1), to |-> DateText(0)],
   [from |-> malformedDate, to |-> DateText(1)],
   [from |-> DateText(0), to |-> malformedDate],
   [from |-> malformedDate],
   [to |-> DateText(0)],
   [from |-> emptyText, to |-> DateText(1)]}

\* req.query of GET /api/products
ProductQueries == {<<>>, [active |-> "true"], [active |-> "1"]}

\* 7 * 24 * 60 * 60 * 1000 ms, in the unit of the clock
oneWeek == 1

\* What new Date() may return: the clock does not run backwards.
Nows == clock..MaxClock

\* ------------------------------------------------------------ the routes
\* Requests handled one after another: every handler runs to its response
\* before the next request is handled, and no handler is suspended. The
\* handlers that are in flight together are the subject of SpecAsync below.

\* res.status(status).json(...) for the request op with parameters req
Respond(op, req, status, message, body) ==
  /\ nreq' = nreq + 1
  /\ resp' = [op |-> op, req |-> req, status |-> status, message |-> message,
              body |-> body]

\* The answer of a handler that ran without another one in between.
Answer(op, req, status, message, body) ==
  /\ Respond(op, req, status, message, body)
  /\ UNCHANGED tasks

\* issued, with the ids of the records in created appended to kind's history
Issue(kind, created) ==
  [issued EXCEPT ![kind] = @ \o [i \in 1..Len(created) |-> created[i].id]]

unchangedCustomers == UNCHANGED <<customers, currentCustomerId>>
unchangedProducts == UNCHANGED <<products, currentProductId>>
unchangedNotifications == UNCHANGED <<notifications, currentNotificationId>>
unchangedTemplates ==
  UNCHANGED <<notificationTemplates, currentNotificationTemplateId>>

GetCustomerById ==
  /\ nreq < MaxRequests
  /\ \E id \in CustomerIdInputs :
    LET customer == getCustomer(customers, id)
    IN  /\ IF ~IsSome(customer)
           THEN Answer("GET /api/customers/:id", [id |-> id], 404,
                       "Customer not found", <<>>)
           ELSE Answer("GET /api/customers/:id", [id |-> id], 200, "", customer)
        /\ UNCHANGED <<store, clock, issued>>

PostCustomer ==
  /\ nreq < MaxRequests
  /\ \E body \in ValidBodies(InsertCustomers) \cup {invalidBody} :
    LET op == "POST /api/customers" IN
    IF ~body.valid
    THEN /\ Answer(op, [body |-> body], 400, "Invalid data", <<>>)
         /\ UNCHANGED <<store, clock, issued>>
    ELSE IF IsSome(getCustomerByEmail(customers, body.data.email))
    THEN /\ Answer(op, [body |-> body], 400,
                   "Customer with this email already exists", <<>>)
         /\ UNCHANGED <<store, clock, issued>>
    ELSE LET r == createCustomer(customers, currentCustomerId, body.data)
         IN  /\ customers' = r.customers
             /\ currentCustomerId' = r.currentCustomerId
             /\ Answer(op, [body |-> body], 201, "", <<r.ret>>)
             /\ issued' = Issue("customers", <<r.ret>>)
             /\ unchangedProducts /\ unchangedNotifications
             /\ unchangedTemplates /\ UNCHANGED clock

PutCustomer ==
  /\ nreq < MaxRequests
  /\ \E id \in CustomerIdInputs,
     body \in ValidBodies(PartialCustomers) \cup {invalidBody} :
    LET op == "PUT /api/customers/:id"
        req == [id |-> id, body |-> body]
    IN
    IF ~body.valid
    THEN /\ Answer(op, req, 400, "Invalid data", <<>>)
         /\ UNCHANGED <<store, clock, issued>>
    ELSE LET r == updateCustomer(customers, id, body.data)
         IN  /\ customers' = r.customers
             /\ IF ~IsSome(r.ret)
                THEN Answer(op, req, 404, "Customer not found", <<>>)
                ELSE Answer(op, req, 200, "", r.ret)
             /\ UNCHANGED <<currentCustomerId, clock, issued>>
             /\ unchangedProducts /\ unchangedNotifications
             /\ unchangedTemplates

DeleteCustomer ==
  /\ nreq < MaxRequests
  /\ \E id \in CustomerIdInputs :
    LET r == deleteCustomer(customers, id)
    IN  /\ customers' = r.customers
        /\ IF ~r.ret
           THEN Answer("DELETE /api/customers/:id", [id |-> id], 404,
                       "Customer not found", <<>>)
           ELSE Answer("DELETE /api/customers/:id", [id |-> id], 204, "", <<>>)
        /\ UNCHANGED <<currentCustomerId, clock, issued>>
        /\ unchangedProducts /\ unchangedNotifications /\ unchangedTemplates

GetProductById ==
  /\ nreq < MaxRequests
  /\ \E id \in ProductIdInputs :
    LET product == getProduct(products, id)
    IN  /\ IF ~IsSome(product)
           THEN Answer("GET /api/products/:id", [id |-> id], 404,
                       "Product not found", <<>>)
           ELSE Answer("GET /api/products/:id", [id |-> id], 200, "", product)
        /\ UNCHANGED <<store, clock, issued>>

PostProduct ==
  /\ nreq < MaxRequests
  /\ \E body \in ValidBodies(InsertProducts) \cup {invalidBody} :
    LET op == "POST /api/products" IN
    IF ~body.valid
    THEN /\ Answer(op, [body |-> body], 400, "Invalid data", <<>>)
         /\ UNCHANGED <<store, clock, issued>>
    ELSE LET r == createProduct(products, currentProductId, body.data)
         IN  /\ products' = r.products
             /\ currentProductId' = r.currentProductId
             /\ Answer(op, [body |-> body], 201, "", <<r.ret>>)
             /\ issued' = Issue("products", <<r.ret>>)
             /\ UNCHANGED clock
             /\ unchangedCustomers /\ unchangedNotifications /\ unchangedTemplates

PutProduct ==
  /\ nreq < MaxRequests
  /\ \E id \in ProductIdInputs, body \in ValidBodies(PartialProducts) \cup {invalidBody} :
    LET op == "PUT /api/products/:id"
        req == [id |-> id, body |-> body]
    IN
    IF ~body.valid
    THEN /\ Answer(op, req, 400, "Invalid data", <<>>)
         /\ UNCHANGED <<store, clock, issued>>
    ELSE LET r == updateProduct(products, id, body.data)
         IN  /\ products' = r.products
             /\ IF ~IsSome(r.ret)
                THEN Answer(op, req, 404, "Product not found", <<>>)
                ELSE Answer(op, req, 200, "", r.ret)
             /\ UNCHANGED <<currentProductId, clock, issued>>
             /\ unchangedCustomers /\ unchangedNotifications /\ unchangedTemplates

DeleteProduct ==
  /\ nreq < MaxRequests
  /\ \E id \in ProductIdInputs :
    LET r == deleteProduct(products, id)
    IN  /\ products' = r.products
        /\ IF ~r.ret
           THEN Answer("DELETE /api/products/:id", [id |-> id], 404,
                       "Product not found", <<>>)
           ELSE Answer("DELETE /api/products/:id", [id |-> id], 204, "", <<>>)
        /\ UNCHANGED <<currentProductId, clock, issued>>
        /\ unchangedCustomers /\ unchangedNotifications /\ unchangedTemplates

GetTemplateById ==
  /\ nreq < MaxRequests
  /\ \E id \in TemplateIdInputs :
    LET template == getNotificationTemplate(notificationTemplates, id)
    IN  /\ IF ~IsSome(template)
           THEN Answer("GET /api/templates/:id", [id |-> id], 404,
                       "Template not found", <<>>)
           ELSE Answer("GET /api/templates/:id", [id |-> id], 200, "", template)
        /\ UNCHANGED <<store, clock, issued>>

PostTemplate ==
  /\ nreq < MaxRequests
  /\ \E body \in ValidBodies(InsertTemplates) \cup {invalidBody} :
    LET op == "POST /api/templates" IN
    IF ~body.valid
    THEN /\ Answer(op, [body |-> body], 400, "Invalid template data", <<>>)
         /\ UNCHANGED <<store, clock, issued>>
    ELSE \E now \in Nows :
         LET r == createNotificationTemplate(notificationTemplates, currentNotificationTemplateId, body.data, now)
         IN  /\ notificationTemplates' = r.notificationTemplates
             /\ currentNotificationTemplateId' = r.currentNotificationTemplateId
             /\ Answer(op, [body |-> body], 201, "", <<r.ret>>)
             /\ issued' = Issue("notificationTemplates", <<r.ret>>)
             /\ clock' = now
             /\ unchangedCustomers /\ unchangedProducts /\ unchangedNotifications

\* The keys of insertNotificationTemplateSchema: the columns of the table
\* without id and createdAt.
templateKeys == {"name", "template", "description", "isDefault"}
\* Keys of a request body that the schema does not have: the two columns the
\* schema omits in the bodies that rename the template, none in the others.
noKeys == [key \in {} |-> 0]
UnknownTemplateKeys(body) ==
  IF body.valid /\ "name" \in DOMAIN body.data
  THEN [id |-> 9, createdAt |-> 7] ELSE noKeys

\* The parse handing every key of the body on.
parsePartialTemplate_passthrough(data) == data

\* insertNotificationTemplateSchema.partial().parse(data) of a body whose
\* schema fields are well typed: a zod object drops the keys it does not
\* declare.
parsePartialTemplate(data) ==
  [key \in DOMAIN data \cap templateKeys |-> data[key]]

PutTemplate ==
  /\ nreq < MaxRequests
  /\ \E id \in TemplateIdInputs,
        body \in ValidBodies(PartialTemplates) \cup {invalidBody} :
    LET op == "PUT /api/templates/:id"
        unknown == UnknownTemplateKeys(body)
        req == [id |-> id, body |-> body, unknown |-> unknown]
    IN
    IF ~body.valid
    THEN /\ Answer(op, req, 400, "Invalid template data", <<>>)
         /\ UNCHANGED <<store, clock, issued>>
    ELSE LET validatedData == parsePartialTemplate(body.data @@ unknown)
             r == updateNotificationTemplate(notificationTemplates, id,
                                             validatedData)
         IN  /\ notificationTemplates' = r.notificationTemplates
             /\ IF ~IsSome(r.ret)
                THEN Answer(op, req, 404, "Template not found", <<>>)
                ELSE Answer(op, req, 200, "", r.ret)
             /\ UNCHANGED <<currentNotificationTemplateId, clock, issued>>
             /\ unchangedCustomers /\ unchangedProducts /\ unchangedNotifications

DeleteTemplate ==
  /\ nreq < MaxRequests
  /\ \E id \in TemplateIdInputs :
    LET r == deleteNotificationTemplate(notificationTemplates, id)
    IN  /\ notificationTemplates' = r.notificationTemplates
        /\ IF ~r.ret
           THEN Answer("DELETE /api/templates/:id", [id |-> id], 404,
                       "Template not found", <<>>)
           ELSE Answer("DELETE /api/templates/:id", [id |-> id], 204, "", <<>>)
        /\ UNCHANGED <<currentNotificationTemplateId, clock, issued>>
        /\ unchangedCustomers /\ unchangedProducts /\ unchangedNotifications

GetNotificationById ==
  /\ nreq < MaxRequests
  /\ \E id \in NotificationIdInputs :
    LET notification == getNotification(notifications, id)
    IN  /\ IF ~IsSome(notification)
           THEN Answer("GET /api/notifications/:id", [id |-> id], 404,
                       "Notification not found", <<>>)
           ELSE Answer("GET /api/notifications/:id", [id |-> id], 200, "",
                       notification)
        /\ UNCHANGED <<store, clock, issued>>

\* The entries of ids, in order, that getOne does not find.
Missing(ids, map) == SelectSeq(ids, LAMBDA id : id \notin DOMAIN map)

\* What the validation of POST /api/notifications answers for a body it
\* rejects: the message of the first check that fails, None when all pass.
notificationRejection(body) ==
  IF ~body.productIds.isArray \/ Len(body.productIds.items) = 0
  THEN Some("Product IDs are required")
  ELSE IF ~body.customerIds.isArray \/ Len(body.customerIds.items) = 0
  THEN Some("Customer IDs are required")
  ELSE IF Missing(body.productIds.items, products) # <<>>
  THEN Some("Product with ID ${productId} not found")
  ELSE IF Missing(body.customerIds.items, customers) # <<>>
  THEN Some("Customer with ID ${customerId} not found")
  ELSE IF Truthy(Field(body, "templateId"))
          /\ ~IsSome(getNotificationTemplate(notificationTemplates,
                                             body.templateId))
  THEN Some("Template with ID ${templateId} not found")
  ELSE None

\* { templateId, productIds, customerIds } of a body that passed the checks:
\* the three keys the handler reads, templateId when the body has it.
notificationData(body) ==
  Spread([key \in DOMAIN body \cap {"templateId"} |-> body[key]],
         [productIds |-> body.productIds.items,
          customerIds |-> body.customerIds.items])

PostNotification ==
  /\ nreq < MaxRequests
  /\ \E body \in NotificationBodies :
    LET op == "POST /api/notifications"
        rejection == notificationRejection(body)
    IN
    IF IsSome(rejection)
    THEN /\ Answer(op, [body |-> body], 400, Get(rejection), <<>>)
         /\ UNCHANGED <<store, clock, issued>>
    ELSE \E now \in Nows :
         \* r is what the one call of createNotifications leaves and returns
         \E r \in {createNotifications(customers, products,
                     notificationTemplates, notifications,
                     currentNotificationId, notificationData(body), now)} :
             /\ notifications' = r.notifications
             /\ currentNotificationId' = r.currentNotificationId
             /\ Answer(op, [body |-> body], 201, "", r.ret)
             /\ issued' = Issue("notifications", r.ret)
             /\ clock' = now
             /\ unchangedCustomers /\ unchangedProducts /\ unchangedTemplates

DeleteNotification ==
  /\ nreq < MaxRequests
  /\ \E id \in NotificationIdInputs :
    LET r == deleteNotification(notifications, id)
    IN  /\ notifications' = r.notifications
        /\ IF ~r.ret
           THEN Answer("DELETE /api/notifications/:id", [id |-> id], 404,
                       "Notification not found", <<>>)
           ELSE Answer("DELETE /api/notifications/:id", [id |-> id], 204, "",
                       <<>>)
        /\ UNCHANGED <<currentNotificationId, clock, issued>>
        /\ unchangedCustomers /\ unchangedProducts /\ unchangedTemplates

GetProducts ==
  /\ nreq < MaxRequests
  /\ \E query \in ProductQueries :
    LET activeOnly == "active" \in DOMAIN query /\ query.active = "true"
        list == IF activeOnly THEN getActiveProducts(products)
                ELSE getAllProducts(products)
    IN  /\ Answer("GET /api/products", [query |-> query], 200, "", list)
        /\ UNCHANGED <<store, clock, issued>>

GetNotifications ==
  /\ nreq < MaxRequests
  /\ \E query \in NotificationQueries :
    LET op == "GET /api/notifications"
        req == [query |-> query]
    IN  /\ IF Given(query, "from") /\ Given(query, "to")
           THEN IF IsNaNDate(query.from) \/ IsNaNDate(query.to)
                THEN Answer(op, req, 400, "Invalid date format", <<>>)
                ELSE Answer(op, req, 200, "",
                            getNotificationsByDateRange(notifications,
                              query.from.time, query.to.time))
           ELSE Answer(op, req, 200, "", getAllNotifications(notifications))
        /\ UNCHANGED <<store, clock, issued>>

GetTemplates ==
  /\ nreq < MaxRequests
  /\ Answer("GET /api/templates", <<>>, 200, "",
            getAllNotificationTemplates(notificationTemplates))
  /\ UNCHANGED <<store, clock, issued>>

\* The notifications of the list that are not older than a week at time now.
thisWeekNotifications_all(list, now) == list

thisWeekNotifications(list, now) ==
  LET oneWeekAgo == now - oneWeek
  IN  SelectSeq(list, LAMBDA n : n.timestamp >= oneWeekAgo)

GetStats ==
  /\ nreq < MaxRequests
  /\ \E now \in Nows :
    LET list == getAllNotifications(notifications)
        stats == [totalNotifications |-> Len(list),
                  activeProducts |-> Len(getActiveProducts(products)),
                  totalCustomers |-> Len(getAllCustomers(customers)),
                  thisWeek |-> Len(thisWeekNotifications(list, now))]
    IN  /\ Answer("GET /api/stats", [now |-> now], 200, "", stats)
        /\ clock' = now
        /\ UNCHANGED <<store, issued>>

Next ==
  \/ GetProducts \/ GetNotifications \/ GetTemplates \/ GetStats
  \/ GetCustomerById \/ PostCustomer \/ PutCustomer \/ DeleteCustomer
  \/ GetProductById \/ PostProduct \/ PutProduct \/ DeleteProduct
  \/ GetTemplateById \/ PostTemplate \/ PutTemplate \/ DeleteTemplate
  \/ GetNotificationById \/ PostNotification \/ DeleteNotification

Spec == Init /\ [][Next]_vars

\* ---------------------------------------------- the store called directly
\* The methods of IStorage called on the exported store with any arguments,
\* without the validation of the routes.

\* The call op(req) returned ret.
Return(op, req, ret) ==
  /\ nreq' = nreq + 1
  /\ resp' = [op |-> op, req |-> req, status |-> 0, message |-> "", body |-> ret]
  /\ UNCHANGED tasks

\* Arguments of createNotifications: the lists of the routes' bodies, lists
\* with ids that are not in the store (5, 999), and no product at all.
NotificationData ==
  {[productIds |-> <<1>>, customerIds |-> <<1, 2, 999>>],
   [productIds |-> <<1>>, customerIds |-> <<999, 2, 5, 2>>, templateId |-> 1],
   [productIds |-> <<2, 1>>, customerIds |-> <<2, 1>>, templateId |-> 4],
   [productIds |-> <<>>, customerIds |-> <<2>>, templateId |-> 4],
   [productIds |-> <<5, 1>>, customerIds |-> <<2>>, templateId |-> 1],
   [productIds |-> <<1>>, customerIds |-> <<5>>, templateId |-> 0],
   [productIds |-> <<1>>, customerIds |-> <<>>],
   [productIds |-> <<1, 2>>, customerIds |-> <<2>>, templateId |-> 1]}

CallCreateCustomer ==
  /\ nreq < MaxRequests
  /\ \E insertCustomer \in InsertCustomers :
       LET r == createCustomer(customers, currentCustomerId, insertCustomer)
       IN  /\ customers' = r.customers
           /\ currentCustomerId' = r.currentCustomerId
           /\ Return("createCustomer", [insertCustomer |-> insertCustomer],
                     <<r.ret>>)
           /\ issued' = Issue("customers", <<r.ret>>)
           /\ unchangedProducts /\ unchangedNotifications
           /\ unchangedTemplates /\ UNCHANGED clock

CallDeleteCustomer ==
  /\ nreq < MaxRequests
  /\ \E id \in CustomerIdInputs :
       LET r == deleteCustomer(customers, id)
       IN  /\ customers' = r.customers
           /\ Return("deleteCustomer", [id |-> id], <<r.ret>>)
           /\ UNCHANGED <<currentCustomerId, clock, issued>>
           /\ unchangedProducts /\ unchangedNotifications
           /\ unchangedTemplates

CallCreateProduct ==
  /\ nreq < MaxRequests
  /\ \E insertProduct \in InsertProducts :
       LET r == createProduct(products, currentProductId, insertProduct)
       IN  /\ products' = r.products
           /\ currentProductId' = r.currentProductId
           /\ Return("createProduct", [insertProduct |-> insertProduct],
                     <<r.ret>>)
           /\ issued' = Issue("products", <<r.ret>>)
           /\ unchangedCustomers /\ unchangedNotifications
           /\ unchangedTemplates /\ UNCHANGED clock

CallDeleteProduct ==
  /\ nreq < MaxRequests
  /\ \E id \in ProductIdInputs :
       LET r == deleteProduct(products, id)
       IN  /\ products' = r.products
           /\ Return("deleteProduct", [id |-> id], <<r.ret>>)
           /\ UNCHANGED <<currentProductId, clock, issued>>
           /\ unchangedCustomers /\ unchangedNotifications
           /\ unchangedTemplates

CallCreateNotificationTemplate ==
  /\ nreq < MaxRequests
  /\ \E insertTemplate \in InsertTemplates, now \in Nows :
       LET r == createNotificationTemplate(notificationTemplates,
                  currentNotificationTemplateId, insertTemplate, now)
       IN  /\ notificationTemplates' = r.notificationTemplates
           /\ currentNotificationTemplateId' = r.currentNotificationTemplateId
           /\ Return("createNotificationTemplate",
                     [insertTemplate |-> insertTemplate], <<r.ret>>)
           /\ issued' = Issue("notificationTemplates", <<r.ret>>)
           /\ clock' = now
           /\ unchangedCustomers /\ unchangedProducts
           /\ unchangedNotifications

CallDeleteNotificationTemplate ==
  /\ nreq < MaxRequests
  /\ \E id \in TemplateIdInputs :
       LET r == deleteNotificationTemplate(notificationTemplates, id)
       IN  /\ notificationTemplates' = r.notificationTemplates
           /\ Return("deleteNotificationTemplate", [id |-> id], <<r.ret>>)
           /\ UNCHANGED <<currentNotificationTemplateId, clock, issued>>
           /\ unchangedCustomers /\ unchangedProducts
           /\ unchangedNotifications

\* createNotifications(data) for a data of the set D
CallCreateNotifications(D) ==
  /\ nreq < MaxRequests
  /\ \E data \in D, now \in Nows :
       \* r is what the one call of createNotifications leaves and returns
       \E r \in {createNotifications(customers, products,
                   notificationTemplates, notifications,
                   currentNotificationId, data, now)} :
           /\ notifications' = r.notifications
           /\ currentNotificationId' = r.currentNotificationId
           /\ Return("createNotifications", [data |-> data], r.ret)
           /\ issued' = Issue("notifications", r.ret)
           /\ clock' = now
           /\ unchangedCustomers /\ unchangedProducts /\ unchangedTemplates

CallDeleteNotification ==
  /\ nreq < MaxRequests
  /\ \E id \in NotificationIdInputs :
       LET r == deleteNotification(notifications, id)
       IN  /\ notifications' = r.notifications
           /\ Return("deleteNotification", [id |-> id], <<r.ret>>)
           /\ UNCHANGED <<currentNotificationId, clock, issued>>
           /\ unchangedCustomers /\ unchangedProducts /\ unchangedTemplates

NextStorage ==
  \/ CallCreateCustomer \/ CallDeleteCustomer
  \/ CallCreateProduct \/ CallDeleteProduct
  \/ CallCreateNotificationTemplate \/ CallDeleteNotificationTemplate
  \/ CallCreateNotifications(NotificationData) \/ CallDeleteNotification

SpecStorage == Init /\ [][NextStorage]_vars

\* --------------------------------------------- interpolation on any text
\* The store after PUT requests have given customer 1, product 1 and template
\* 1 a name, a description and a template text built from the pieces below,
\* and createNotifications called on it.

\* The largest number of pieces a template text is made of.
MaxPieces == 2

widgetName == <<"W","i","d","g","e","t">>
dollarAmpersand == <<"$","&">>

\* "{{foo}}", a token that is not recognized
fooToken == <<"{","{","f","o","o","}","}">>
\* "{{product.{{customer.name}}me}}", a recognized token inside other text
nestedToken ==
  <<"{","{","p","r","o","d","u","c","t",".">> \o customerNameToken
    \o <<"m","e","}","}">>

\* What a template text is made of: plain text, tokens, "$&", a token that
\* is not recognized and a token inside other text.
TemplatePieces ==
  {<<"H","i"," ">>, customerNameToken, productNameToken,
   productDescriptionToken, dollarAmpersand, fooToken, nestedToken}

\* The texts made of at most n pieces.
RECURSIVE TextsOf(_)
TextsOf(n) ==
  IF n = 0 THEN {<<>>}
  ELSE LET shorter == TextsOf(n - 1)
       IN  shorter \cup {t \o piece : t \in shorter, piece \in TemplatePieces}

\* Field values: plain ones, ones that hold a token, and ones that hold a "$"
\* followed by each of the characters replace treats specially and by one it
\* does not.
CustomerNames ==
  {anaName, productNameToken, dollarAmpersand, <<"$","$">>,
   <<"a","$",backtick>>, <<"$","'","b">>, <<"$","1">>, <<"n","a">>}
ProductNames == {widgetName, productDescriptionToken}
ProductDescriptions == {None, Some(customerNameToken), Some(dollarAmpersand)}

InitInterp ==
  LET s == initializeSampleData(0)
  IN  /\ \E name \in CustomerNames :
           customers = updateCustomer(s.customers, 1, [name |-> name]).customers
      /\ \E name \in ProductNames, description \in ProductDescriptions :
           products = updateProduct(s.products, 1,
                        [name |-> name, description |-> description]).products
      /\ \E template \in TextsOf(MaxPieces) :
           notificationTemplates =
             updateNotificationTemplate(s.notificationTemplates, 1,
               [template |-> template]).notificationTemplates
      /\ notifications = s.notifications
      /\ currentCustomerId = s.currentCustomerId
      /\ currentProductId = s.currentProductId
      /\ currentNotificationId = s.currentNotificationId
      /\ currentNotificationTemplateId = s.currentNotificationTemplateId
      /\ clock = 0
      /\ nreq = 0
      /\ resp = noResponse
      /\ issued = s.issued
      /\ tasks = <<>>

\* Arguments of createNotifications that select template 1 and product 1.
InterpolationData ==
  {[productIds |-> <<1>>, customerIds |-> <<1>>, templateId |-> 1],
   [productIds |-> <<1, 2>>, customerIds |-> <<2, 1>>, templateId |-> 1]}

NextInterp == CallCreateNotifications(InterpolationData)

SpecInterp == InitInterp /\ [][NextInterp]_vars

\* ------------------------------------------- requests in flight together
\* A handler is an async function: at each await it is suspended, and the
\* handlers of other requests that are in flight run before it is resumed.
\* A store method that has no await of its own runs when it is called, so the
\* value a handler awaits was read, and the method's change was made, when the
\* handler was suspended. A handler with a single store call is one step; POST
\* /api/customers and POST /api/notifications have several calls and are one
\* step per stretch between two awaits. A handler's last stretch, which only
\* sends the response, is taken with the stretch before it. The handlers in
\* flight together finish within one unit of the clock.

\* A request may be accepted: MaxRequests bounds those answered and in flight.
mayStart == nreq + Len(tasks) < MaxRequests

\* A handler of op for req, not yet suspended.
newTask(op, req) ==
  [op |-> op, req |-> req, pc |-> "", i |-> 0, awaited |-> None,
   template |-> None, customer |-> None, created |-> <<>>]
\* The handler suspended at the await of pc, in iteration i of its loop, on the
\* value the awaited call has returned.
suspendedAt(task, pc, i, awaited) ==
  [task EXCEPT !.pc = pc, !.i = i, !.awaited = awaited]
\* tasks without its k-th entry
Without(k) == SubSeq(tasks, 1, k - 1) \o SubSeq(tasks, k + 1, Len(tasks))

\* POST /api/customers up to  await storage.getCustomerByEmail(...)
StartPostCustomer ==
  /\ mayStart
  /\ \E body \in ValidBodies(InsertCustomers) \cup {invalidBody} :
    LET op == "POST /api/customers" IN
    IF ~body.valid
    THEN /\ Answer(op, [body |-> body], 400, "Invalid data", <<>>)
         /\ UNCHANGED <<store, clock, issued>>
    ELSE /\ tasks' = Append(tasks,
                       suspendedAt(newTask(op, [body |-> body]),
                         "getCustomerByEmail", 0,
                         getCustomerByEmail(customers, body.data.email)))
         /\ UNCHANGED <<store, clock, issued, nreq, resp>>

\* POST /api/customers from the value of getCustomerByEmail on: the answer 400,
\* or createCustomer and the answer 201.
ResumePostCustomer ==
  \E k \in 1..Len(tasks) :
    LET task == tasks[k] IN
    /\ task.op = "POST /api/customers"
    /\ tasks' = Without(k)
    /\ IF IsSome(task.awaited)
       THEN /\ Respond(task.op, task.req, 400,
                       "Customer with this email already exists", <<>>)
            /\ UNCHANGED <<store, clock, issued>>
       ELSE LET r == createCustomer(customers, currentCustomerId,
                                    task.req.body.data)
            IN  /\ customers' = r.customers
                /\ currentCustomerId' = r.currentCustomerId
                /\ Respond(task.op, task.req, 201, "", <<r.ret>>)
                /\ issued' = Issue("customers", <<r.ret>>)
                /\ unchangedProducts /\ unchangedNotifications
                /\ unchangedTemplates /\ UNCHANGED clock

\* What a stretch of POST /api/notifications leaves: the handler suspended
\* again, or its answer, and the notifications map and id counter.
Suspend(task, ns, nextId) ==
  [done |-> FALSE, task |-> task, status |-> 0, message |-> "",
   notifications |-> ns, currentNotificationId |-> nextId]
Finish(task, status, message, ns, nextId) ==
  [done |-> TRUE, task |-> task, status |-> status, message |-> message,
   notifications |-> ns, currentNotificationId |-> nextId]

\* The notification createNotifications builds with the id given.
newNotification(id, customer, template, product, data, now) ==
  [id |-> id,
   customerId |-> customer.id,
   customerEmail |-> customer.email,
   customerName |-> customer.name,
   customerPhone |-> customer.phoneNumber,
   notificationBody |-> notificationBody(template, product, customer),
   templateId |-> IF Truthy(Field(data, "templateId"))
                  THEN Some(data.templateId) ELSE None,
   productIds |-> data.productIds,
   timestamp |-> now]

\* createNotifications at the head of iteration i of its loop: the call of
\* getCustomer, or the return of the list, which the handler answers with 201.
enterLoop(task, i, ns, nextId) ==
  LET data == notificationData(task.req.body)
  IN  IF i > Len(data.customerIds)
      THEN Finish(task, 201, "", ns, nextId)
      ELSE Suspend(suspendedAt(task, "createNotifications: getCustomer", i,
                     getCustomer(customers, data.customerIds[i])),
                   ns, nextId)

\* The call of createNotifications, up to its first await.
enterCreate(task) ==
  LET data == notificationData(task.req.body)
  IN  IF Truthy(Field(data, "templateId"))
      THEN Suspend(suspendedAt(task,
                     "createNotifications: getNotificationTemplate", 0,
                     getNotificationTemplate(notificationTemplates,
                                             data.templateId)),
                   notifications, currentNotificationId)
      ELSE enterLoop([task EXCEPT !.template = None], 1,
                     notifications, currentNotificationId)

\* The handler at  if (templateId)
enterValidateTemplate(task) ==
  LET body == task.req.body
  IN  IF Truthy(Field(body, "templateId"))
      THEN Suspend(suspendedAt(task, "getNotificationTemplate", 0,
                     getNotificationTemplate(notificationTemplates,
                                             body.templateId)),
                   notifications, currentNotificationId)
      ELSE enterCreate(task)

\* The handler at the head of iteration i of its loop over customerIds
enterValidateCustomer(task, i) ==
  LET customerIds == task.req.body.customerIds.items
  IN  IF i <= Len(customerIds)
      THEN Suspend(suspendedAt(task, "getCustomer", i,
                     getCustomer(customers, customerIds[i])),
                   notifications, currentNotificationId)
      ELSE enterValidateTemplate(task)

\* The handler at the head of iteration i of its loop over productIds
enterValidateProduct(task, i) ==
  LET productIds == task.req.body.productIds.items
  IN  IF i <= Len(productIds)
      THEN Suspend(suspendedAt(task, "getProduct", i,
                     getProduct(products, productIds[i])),
                   notifications, currentNotificationId)
      ELSE enterValidateCustomer(task, 1)

\* storeNotification leaving the id counter as it was.
storeNotification_noIncrement(task, product, now) ==
  LET data == notificationData(task.req.body)
      id == currentNotificationId
      notification == newNotification(id, Get(task.customer), task.template,
                                      product, data, now)
  IN  enterLoop([task EXCEPT !.created = Append(@, notification)],
                task.i + 1, MapSet(notifications, id, notification), id)

\* createNotifications from the product of the current customer's iteration
\* on: the notification is built, numbered and stored, and the loop goes on.
storeNotification(task, product, now) ==
  LET data == notificationData(task.req.body)
      id == currentNotificationId
      notification == newNotification(id, Get(task.customer), task.template,
                                      product, data, now)
  IN  enterLoop([task EXCEPT !.created = Append(@, notification)],
                task.i + 1, MapSet(notifications, id, notification), id + 1)

\* The stretch of POST /api/notifications that starts when the awaited value
\* arrives.
resumeNotification(task, now) ==
  LET data == notificationData(task.req.body)
  IN
  CASE task.pc = "getProduct" ->
         IF ~IsSome(task.awaited)
         THEN Finish(task, 400, "Product with ID ${productId} not found",
                     notifications, currentNotificationId)
         ELSE enterValidateProduct(task, task.i + 1)
    [] task.pc = "getCustomer" ->
         IF ~IsSome(task.awaited)
         THEN Finish(task, 400, "Customer with ID ${customerId} not found",
                     notifications, currentNotificationId)
         ELSE enterValidateCustomer(task, task.i + 1)
    [] task.pc = "getNotificationTemplate" ->
         IF ~IsSome(task.awaited)
         THEN Finish(task, 400, "Template with ID ${templateId} not found",
                     notifications, currentNotificationId)
         ELSE enterCreate(task)
    [] task.pc = "createNotifications: getNotificationTemplate" ->
         enterLoop([task EXCEPT !.template = task.awaited], 1,
                   notifications, currentNotificationId)
    [] task.pc = "createNotifications: getCustomer" ->
         IF ~IsSome(task.awaited)
         THEN enterLoop(task, task.i + 1, notifications, currentNotificationId)
         ELSE LET found == [task EXCEPT !.customer = task.awaited]
              IN  IF Len(data.productIds) > 0
                  THEN Suspend(suspendedAt(found,
                                 "createNotifications: getProduct", task.i,
                                 getProduct(products, data.productIds[1])),
                               notifications, currentNotificationId)
                  ELSE storeNotification(found, None, now)
    [] task.pc = "createNotifications: getProduct" ->
         storeNotification(task, task.awaited, now)

\* Bodies of POST /api/notifications of the requests in flight together.
AsyncNotificationBodies ==
  {[productIds |-> JArray(<<1>>), customerIds |-> JArray(<<2, 1>>)],
   [productIds |-> JArray(<<1>>), customerIds |-> JArray(<<2>>),
    templateId |-> 1],
   [productIds |-> JArray(<<1, 5>>), customerIds |-> JArray(<<2>>)],
   [productIds |-> JArray(<<1>>), customerIds |-> notArray]}

\* POST /api/notifications up to its first await.
StartPostNotification ==
  /\ mayStart
  /\ \E body \in AsyncNotificationBodies :
    LET op == "POST /api/notifications"
        req == [body |-> body]
    IN
    IF ~body.productIds.isArray \/ Len(body.productIds.items) = 0
    THEN /\ Answer(op, req, 400, "Product IDs are required", <<>>)
         /\ UNCHANGED <<store, clock, issued>>
    ELSE IF ~body.customerIds.isArray \/ Len(body.customerIds.items) = 0
    THEN /\ Answer(op, req, 400, "Customer IDs are required", <<>>)
         /\ UNCHANGED <<store, clock, issued>>
    ELSE /\ tasks' = Append(tasks, enterValidateProduct(newTask(op, req), 1).task)
         /\ UNCHANGED <<store, clock, issued, nreq, resp>>

\* One stretch of a suspended POST /api/notifications.
ResumePostNotification ==
  \E k \in 1..Len(tasks) :
    /\ tasks[k].op = "POST /api/notifications"
    /\ \E r \in {resumeNotification(tasks[k], clock)} :
         \* r is what the stretch leaves
         LET task == tasks[k]
             stored == SubSeq(r.task.created, Len(task.created) + 1,
                              Len(r.task.created))
         IN  /\ notifications' = r.notifications
             /\ currentNotificationId' = r.currentNotificationId
             /\ issued' = Issue("notifications", stored)
             /\ IF r.done
                THEN /\ tasks' = Without(k)
                     /\ Respond(task.op, task.req, r.status, r.message,
                                IF r.status = 201 THEN r.task.created
                                ELSE <<>>)
                ELSE /\ tasks' = [tasks EXCEPT ![k] = r.task]
                     /\ UNCHANGED <<nreq, resp>>
             /\ unchangedCustomers /\ unchangedProducts /\ unchangedTemplates
             /\ UNCHANGED clock

\* The handlers with a single store call, accepted while others are in flight.
AsyncPutCustomer == mayStart /\ PutCustomer
AsyncDeleteCustomer == mayStart /\ DeleteCustomer
AsyncPostProduct == mayStart /\ PostProduct
AsyncPutProduct == mayStart /\ PutProduct
AsyncDeleteProduct == mayStart /\ DeleteProduct
AsyncPostTemplate == mayStart /\ PostTemplate
AsyncPutTemplate == mayStart /\ PutTemplate
AsyncDeleteTemplate == mayStart /\ DeleteTemplate
AsyncDeleteNotification == mayStart /\ DeleteNotification

NextAsync ==
  \/ StartPostCustomer \/ ResumePostCustomer
  \/ StartPostNotification \/ ResumePostNotification
  \/ AsyncPutCustomer \/ AsyncDeleteCustomer
  \/ AsyncPostProduct \/ AsyncPutProduct \/ AsyncDeleteProduct
  \/ AsyncPostTemplate \/ AsyncPutTemplate \/ AsyncDeleteTemplate
  \/ AsyncDeleteNotification

SpecAsync == Init /\ [][NextAsync]_vars

\* ================================================================ claims
\* A step of the behaviour is one request (or one call): the request counter
\* grows by one and resp' describes that request and its answer.
Requested(op) == nreq' = nreq + 1 /\ resp'.op = op

\* Some stored customer has this email.
EmailStored(email) == \E id \in DOMAIN customers : customers[id].email = email

\* C1: in every state reachable by POST, PUT and DELETE requests on
\* /api/customers from the sample data, no two stored customers have the same
\* email.
C1_EmailsUnique ==
  \A a \in DOMAIN customers, b \in DOMAIN customers :
    customers[a].email = customers[b].email => a = b

\* C2: POST /api/customers with the email of a customer that is in the store
\* is answered 400 and leaves the stored customers and the customer id counter
\* as they were.
C2_DuplicateEmailRejected ==
  [][(/\ Requested("POST /api/customers")
      /\ resp'.req.body.valid
      /\ EmailStored(resp'.req.body.data.email))
     => (/\ resp'.status = 400
         /\ customers' = customers
         /\ currentCustomerId' = currentCustomerId)]_vars

\* C2's case: a POST repeating the email of a customer that an earlier POST
\* created has been rejected.
C2_Witness ==
  /\ resp.op = "POST /api/customers"
  /\ resp.status = 400
  /\ resp.message = "Customer with this email already exists"
  /\ resp.req.body.data.email = anaEmail
  /\ \E id \in DOMAIN customers : id >= 5 /\ customers[id].email = anaEmail

\* The largest id of a set of ids, 0 for the empty set.
LargestId(ids) == IF ids = {} THEN 0 ELSE Max(ids)
\* The elements of a sequence.
Range(seq) == {seq[i] : i \in 1..Len(seq)}
\* The customer record createCustomer is to store for an insert record.
Stored(id, insertCustomer) ==
  [id |-> id, name |-> insertCustomer.name, email |-> insertCustomer.email,
   phoneNumber |-> insertCustomer.phoneNumber]

\* C3 (as stated): createCustomer followed by getCustomer of the returned id
\* yields the three field values given, and the returned id is one greater
\* than the largest customer id in the store just before the create.
C3_IdAfterLargestStored ==
  [][Requested("createCustomer")
     => LET customer == resp'.body[1]
        IN  /\ getCustomer(customers', customer.id)
                 = Some(Stored(customer.id, resp'.req.insertCustomer))
            /\ customer.id = LargestId(DOMAIN customers) + 1]_vars

\* C3 (amended): createCustomer followed by getCustomer of the returned id
\* yields the three field values given, and the returned id is the value of
\* the id counter: one greater than the largest customer id ever assigned,
\* hence greater than every customer id in the store.
C3_IdAfterLargestAssigned ==
  [][Requested("createCustomer")
     => LET customer == resp'.body[1]
        IN  /\ getCustomer(customers', customer.id)
                 = Some(Stored(customer.id, resp'.req.insertCustomer))
            /\ customer.id = currentCustomerId
            /\ customer.id = LargestId(Range(issued.customers)) + 1
            /\ \A id \in DOMAIN customers : id < customer.id]_vars

\* C3's case: a customer was created while the latest created customer (4)
\* was no longer in the store.
C3_Witness ==
  /\ resp.op = "createCustomer"
  /\ 4 \notin DOMAIN customers
  /\ resp.body[1].id = 5
  /\ getCustomer(customers, 5) = Some(Stored(5, resp.req.insertCustomer))

\* C4: for each of the four kinds, every create returns an id strictly greater
\* than every id an earlier create of that kind returned, whether or not the
\* record is still in the store.
C4_IdsNeverReused ==
  \A kind \in DOMAIN issued :
    \A i \in 1..Len(issued[kind]), j \in 1..Len(issued[kind]) :
      i < j => issued[kind][i] < issued[kind][j]

\* C4's case: a product was created after a product was deleted, and its id
\* is not the deleted one's.
C4_Witness ==
  /\ resp.op = "createProduct"
  /\ 1 \in Range(issued.products)
  /\ 1 \notin DOMAIN products
  /\ resp.body[1].id = 5
  /\ issued.products = <<1, 2, 3, 4, 5>>

\* The entries of customerIds that resolve to a stored customer, in order.
Resolved(customerIds) ==
  SelectSeq(customerIds, LAMBDA id : id \in DOMAIN customers)

\* C5: createNotifications returns one notification for each entry of
\* customerIds that resolves to a stored customer, in the order of the entries,
\* skipping the others, and the number of stored notifications grows by the
\* number returned.
C5_OnePerResolvedCustomer ==
  [][Requested("createNotifications")
     => LET resolved == Resolved(resp'.req.data.customerIds)
            created == resp'.body
        IN  /\ Len(created) = Len(resolved)
            /\ \A i \in 1..Len(created) : created[i].customerId = resolved[i]
            /\ Cardinality(DOMAIN notifications')
                 = Cardinality(DOMAIN notifications) + Len(created)
            /\ \A i \in 1..Len(created) :
                 getNotification(notifications', created[i].id) = Some(created[i])]_vars

\* C5's case: customerIds [1, 2, 999] with no customer 999 gave two
\* notifications, for customer 1 and then customer 2.
C5_Witness ==
  /\ resp.op = "createNotifications"
  /\ resp.req.data.customerIds = <<1, 2, 999>>
  /\ resp.req.data.productIds = <<1>>
  /\ 999 \notin DOMAIN customers
  /\ Len(resp.body) = 2
  /\ resp.body[1].customerId = 1 /\ resp.body[2].customerId = 2
  /\ resp.body[1].productIds = <<1>> /\ resp.body[2].productIds = <<1>>

\* The ids of a JSON value that is an array; none otherwise.
Items(value) == IF value.isArray THEN Range(value.items) ELSE {}

\* C6: POST /api/notifications is rejected, with no notification created and
\* the notification id counter unchanged, whenever productIds or customerIds is
\* empty or not an array, or a product id, a customer id or a supplied template
\* id is not in the store.
C6_InvalidBodyRejected ==
  [][(/\ Requested("POST /api/notifications")
      /\ LET body == resp'.req.body
         IN  \/ ~body.productIds.isArray \/ body.productIds.items = <<>>
             \/ ~body.customerIds.isArray \/ body.customerIds.items = <<>>
             \/ \E id \in Items(body.productIds) : id \notin DOMAIN products
             \/ \E id \in Items(body.customerIds) : id \notin DOMAIN customers
             \/ /\ "templateId" \in DOMAIN body
                /\ body.templateId \notin DOMAIN notificationTemplates)
     => (/\ resp'.status = 400
         /\ notifications' = notifications
         /\ currentNotificationId' = currentNotificationId)]_vars

\* The request r passed the validation of its payload and refers to an
\* identifier that is not in the store: the :id of a GET, PUT or DELETE, or a
\* product, customer or template id in the body of POST /api/notifications.
AbsentId(r) ==
  CASE r.op \in {"GET /api/customers/:id", "DELETE /api/customers/:id"} ->
         r.req.id \notin DOMAIN customers
    [] r.op = "PUT /api/customers/:id" ->
         r.req.body.valid /\ r.req.id \notin DOMAIN customers
    [] r.op \in {"GET /api/products/:id", "DELETE /api/products/:id"} ->
         r.req.id \notin DOMAIN products
    [] r.op = "PUT /api/products/:id" ->
         r.req.body.valid /\ r.req.id \notin DOMAIN products
    [] r.op \in {"GET /api/templates/:id", "DELETE /api/templates/:id"} ->
         r.req.id \notin DOMAIN notificationTemplates
    [] r.op = "PUT /api/templates/:id" ->
         r.req.body.valid /\ r.req.id \notin DOMAIN notificationTemplates
    [] r.op \in {"GET /api/notifications/:id",
                 "DELETE /api/notifications/:id"} ->
         r.req.id \notin DOMAIN notifications
    [] r.op = "POST /api/notifications" ->
         \/ \E id \in Items(r.req.body.productIds) : id \notin DOMAIN products
         \/ \E id \in Items(r.req.body.customerIds) : id \notin DOMAIN customers
         \/ /\ "templateId" \in DOMAIN r.req.body
            /\ r.req.body.templateId \notin DOMAIN notificationTemplates
    [] OTHER -> FALSE

\* C7: every request that refers to an identifier absent from the store is
\* answered 404: GET, PUT and DELETE on the :id routes, and POST
\* /api/notifications with an unknown product, customer or template id (the
\* requests whose payload is itself invalid are left aside).
C7_AbsentIdAnswered404 ==
  [][(nreq' = nreq + 1 /\ AbsentId(resp')) => resp'.status = 404]_vars

\* The body the three cases give for the template (or None) and the first
\* product (or None) of a call: the interpolated template, else the raw text
\* of the template, else the default message.
BodyByCases(template, product, customer) ==
  IF IsSome(template) /\ IsSome(product)
  THEN interpolateTemplate(Get(template).template, customer, Get(product))
  ELSE IF IsSome(template) THEN Get(template).template
  ELSE defaultNotificationMessage

\* The template and the first product that the data of a call resolve to.
TemplateOf(data) ==
  IF "templateId" \in DOMAIN data
  THEN getNotificationTemplate(notificationTemplates, data.templateId)
  ELSE None
FirstProductOf(data) ==
  IF Len(data.productIds) > 0 THEN getProduct(products, data.productIds[1])
  ELSE None

\* C8: the body of every notification createNotifications returns is the
\* interpolated template when the template and the first product resolve,
\* else the raw text of the template when the template resolves (the empty
\* text included), else "Default notification message".
C8_BodyByCases ==
  [][Requested("createNotifications") =>
       \A i \in 1..Len(resp'.body) :
         resp'.body[i].notificationBody =
           BodyByCases(TemplateOf(resp'.req.data),
                       FirstProductOf(resp'.req.data),
                       customers[resp'.body[i].customerId])]_vars

\* The seven tokens with the field values that stand for them.
TokenValues(customer, product) ==
  <<<<customerNameToken, customer.name>>,
    <<customerEmailToken, customer.email>>,
    <<customerPhoneNumberToken, customer.phoneNumber>>,
    <<productNameToken, product.name>>,
    <<productDescriptionToken, OrElse(product.description, <<>>)>>,
    <<productStoreLinkToken, OrElse(product.storeLink, <<>>)>>,
    <<productThumbnailUrlToken, OrElse(product.thumbnailUrl, <<>>)>>>>

\* One pass over s from position i on in which every occurrence of a token
\* of pairs is replaced by the value paired with it, and nothing else is.
RECURSIVE SubstituteFrom(_, _, _)
SubstituteFrom(s, pairs, i) ==
  LET matches == {j \in i..Len(s) :
                    \E p \in 1..Len(pairs) : MatchAt(s, pairs[p][1], j)}
  IN  IF matches = {} THEN SubSeq(s, i, Len(s))
      ELSE LET m == CHOOSE j \in matches : \A j2 \in matches : j <= j2
               p == CHOOSE q \in 1..Len(pairs) : MatchAt(s, pairs[q][1], m)
           IN  SubSeq(s, i, m - 1) \o pairs[p][2]
                 \o SubstituteFrom(s, pairs, m + Len(pairs[p][1]))

\* All seven tokens of the template substituted at once.
SubstituteAll(template, customer, product) ==
  SubstituteFrom(template, TokenValues(customer, product), 1)

\* The text holds the character c.
Holds(text, c) == \E i \in 1..Len(text) : text[i] = c
\* Some field value of the customer or the product holds the character c.
ValueHolds(customer, product, c) ==
  \E p \in 1..7 : Holds(TokenValues(customer, product)[p][2], c)

\* The notifications a call of createNotifications returned whose template
\* and first product resolved, as <<template text, customer, product, body>>.
Interpolated ==
  IF resp.op = "createNotifications"
       /\ IsSome(TemplateOf(resp.req.data))
       /\ IsSome(FirstProductOf(resp.req.data))
  THEN {<<Get(TemplateOf(resp.req.data)).template,
          customers[resp.body[i].customerId],
          Get(FirstProductOf(resp.req.data)),
          resp.body[i].notificationBody>> : i \in 1..Len(resp.body)}
  ELSE {}

\* C9: the chain of replacements gives what substituting the seven tokens of
\* the template at once gives, so that a token inserted with a field value is
\* not substituted again (for field values without "$", whose treatment is
\* not a matter of order).
C9_OrderInsensitive ==
  \A n \in Interpolated :
    ~ValueHolds(n[2], n[3], "$") =>
      n[4] = SubstituteAll(n[1], n[2], n[3])

\* C10: every occurrence of a token in the template is replaced by the field
\* value it stands for, the empty text for a null field, and the rest of the
\* template is kept (for field values without "{", which hold no token).
C10_TokensReplacedByValues ==
  \A n \in Interpolated :
    ~ValueHolds(n[2], n[3], "{") =>
      n[4] = SubstituteAll(n[1], n[2], n[3])

\* The seven recognized tokens.
recognizedTokens ==
  <<customerNameToken, customerEmailToken, customerPhoneNumberToken,
    productNameToken, productDescriptionToken, productStoreLinkToken,
    productThumbnailUrlToken>>

\* The parts of s from position i on that lie between the occurrences of the
\* recognized tokens, in order: one more part than there are occurrences.
RECURSIVE PartsFrom(_, _)
PartsFrom(s, i) ==
  LET matches == {j \in i..Len(s) :
                    \E t \in 1..Len(recognizedTokens) :
                      MatchAt(s, recognizedTokens[t], j)}
  IN  IF matches = {} THEN <<SubSeq(s, i, Len(s))>>
      ELSE LET m == CHOOSE j \in matches : \A j2 \in matches : j <= j2
               t == CHOOSE u \in 1..Len(recognizedTokens) :
                      MatchAt(s, recognizedTokens[u], m)
           IN  <<SubSeq(s, i, m - 1)>>
                 \o PartsFrom(s, m + Len(recognizedTokens[t]))

\* The text has part at position j.
PartAt(text, part, j) ==
  /\ j + Len(part) - 1 <= Len(text)
  /\ SubSeq(text, j, j + Len(part) - 1) = part

\* The text from position pos on is made of parts k, k+1, ... in this order,
\* with any text before each of them, and ends with the last part.
RECURSIVE KeepsFrom(_, _, _, _)
KeepsFrom(text, parts, k, pos) ==
  IF k = Len(parts)
  THEN /\ Len(text) - Len(parts[k]) + 1 >= pos
       /\ PartAt(text, parts[k], Len(text) - Len(parts[k]) + 1)
  ELSE LET at == {j \in pos..(Len(text) + 1) : PartAt(text, parts[k], j)}
       IN  /\ at # {}
           /\ KeepsFrom(text, parts, k + 1,
                        (CHOOSE j \in at : \A j2 \in at : j <= j2)
                          + Len(parts[k]))

\* The text is the parts, in order, with some text in the place of each token
\* occurrence that separates two parts.
Keeps(text, parts) ==
  IF Len(parts) = 1 THEN text = parts[1]
  ELSE /\ PartAt(text, parts[1], 1)
       /\ KeepsFrom(text, parts, 2, Len(parts[1]) + 1)

\* C11: interpolation leaves every part of the template that is not one of
\* the seven recognized tokens as it is, tokens that are not recognized
\* included: the body is the template with only the occurrences of the
\* recognized tokens replaced.
C11_RestLeftVerbatim ==
  \A n \in Interpolated : Keeps(n[4], PartsFrom(n[1], 1))

\* C12: a stored notification has the same value in every field in every
\* later state until it is deleted, whatever is done to the customers, the
\* products, the templates and the other notifications.
C12_NotificationsImmutable ==
  [][\A id \in DOMAIN notifications \cap DOMAIN notifications' :
       notifications'[id] = notifications[id]]_vars

\* C12's case: the customer of stored notification 1 has been renamed or
\* deleted, and the notification still carries the name it was created with.
C12_Witness ==
  /\ 1 \in DOMAIN notifications
  /\ notifications[1].customerId = 2
  /\ notifications[1].customerName = sampleCustomers[2].name
  /\ resp.op \in {"PUT /api/customers/:id", "DELETE /api/customers/:id"}
  /\ resp.req.id = 2
  /\ resp.status \in {200, 204}
  /\ \/ 2 \notin DOMAIN customers
     \/ customers[2].name # sampleCustomers[2].name

\* C13: each notification createNotifications creates carries the id, the
\* email, the name and the phone number the customer has in the store at that
\* moment, the templateId that was supplied (null when none was), and the
\* whole productIds list that was supplied.
C13_SnapshotOfCall ==
  [][Requested("createNotifications") =>
       LET data == resp'.req.data IN
       \A i \in 1..Len(resp'.body) :
         LET notification == resp'.body[i]
             customer == customers[notification.customerId]
         IN  /\ notification.customerId = customer.id
             /\ notification.customerEmail = customer.email
             /\ notification.customerName = customer.name
             /\ notification.customerPhone = customer.phoneNumber
             /\ notification.templateId =
                  (IF "templateId" \in DOMAIN data
                   THEN Some(data.templateId) ELSE None)
             /\ notification.productIds = data.productIds]_vars

\* C14: two calls of createNotifications, one after the other, with the same
\* templateId and with productIds that have the same first element, give each
\* customer they have in common the same notification body, whatever the
\* other elements of productIds are.
C14_FirstProductOnly ==
  [][(/\ resp.op = "createNotifications"
      /\ Requested("createNotifications")
      /\ Field(resp.req.data, "templateId") = Field(resp'.req.data, "templateId")
      /\ Len(resp.req.data.productIds) > 0
      /\ Len(resp'.req.data.productIds) > 0
      /\ resp.req.data.productIds[1] = resp'.req.data.productIds[1])
     => \A i \in 1..Len(resp.body), j \in 1..Len(resp'.body) :
          resp.body[i].customerId = resp'.body[j].customerId
            => resp.body[i].notificationBody = resp'.body[j].notificationBody]_vars

\* C14's case: two stored notifications for customer 2 from template 1, one
\* created with productIds [1] and one with [1, 2], have the same body, in
\* which product 1 is named.
C14_Witness ==
  /\ resp.op = "createNotifications"
  /\ \E a \in DOMAIN notifications, b \in DOMAIN notifications :
       /\ notifications[a].customerId = 2 /\ notifications[b].customerId = 2
       /\ notifications[a].templateId = Some(1)
       /\ notifications[b].templateId = Some(1)
       /\ notifications[a].productIds = <<1>>
       /\ notifications[b].productIds = <<1, 2>>
       /\ notifications[a].notificationBody = notifications[b].notificationBody
       /\ notifications[a].notificationBody =
            interpolateTemplate(sampleTemplates[1].template, customers[2],
                                products[1])

\* The list holds every record of the map exactly once and nothing else.
ListsAll(list, map) ==
  /\ Len(list) = Cardinality(DOMAIN map)
  /\ \A id \in DOMAIN map : \E i \in 1..Len(list) : list[i] = map[id]

\* The times of the list in the field never grow along the list.
NewestFirst(list, field) ==
  \A i \in 1..Len(list), j \in 1..Len(list) :
    i < j => list[i][field] >= list[j][field]

\* The last request was GET /api/notifications, answered by the range (when
\* both from and to are given) or by getAllNotifications (otherwise).
ListedNotifications(ranged) ==
  /\ resp.op = "GET /api/notifications"
  /\ resp.status = 200
  /\ ranged = (Given(resp.req.query, "from") /\ Given(resp.req.query, "to"))

NotificationsWithin(from, to) ==
  LET ids == {id \in DOMAIN notifications :
                /\ from <= notifications[id].timestamp
                /\ notifications[id].timestamp <= to}
  IN  [id \in ids |-> notifications[id]]

C17_MalformedDateRejected ==
  LET query == resp.req.query IN
  (/\ resp.op = "GET /api/notifications"
   /\ \E key \in DOMAIN query : IsNaNDate(query[key]))
  => resp.status = 400

\* The stored products whose active flag is set.
ActiveProducts ==
  [id \in {p \in DOMAIN products : products[p].isActive = 1} |-> products[id]]

\* C18: GET /api/products?active=true returns exactly the stored products
\* with isActive = 1, and GET /api/products with any other query returns
\* every stored product.
C18_ActiveFilter ==
  resp.op = "GET /api/products" =>
    /\ resp.status = 200
    /\ IF Field(resp.req.query, "active") = Some("true")
       THEN /\ ListsAll(resp.body, ActiveProducts)
            /\ \A i \in 1..Len(resp.body) : resp.body[i].isActive = 1
       ELSE ListsAll(resp.body, products)

\* C18's case: the active products were asked for while a product with
\* isActive = 0 was stored, and it was left out.
C18_Witness ==
  /\ resp.op = "GET /api/products"
  /\ resp.req.query = [active |-> "true"]
  /\ \E id \in DOMAIN products : products[id].isActive = 0
  /\ Len(resp.body) = Cardinality(DOMAIN products) - 1
  /\ Len(resp.body) >= 3

\* C19: GET /api/stats returns the number of stored notifications, of stored
\* products with isActive = 1, of stored customers, and of stored
\* notifications that are not older than 7 days at the time of the request;
\* the last is at most the first.
C19_StatsCounts ==
  resp.op = "GET /api/stats" =>
    /\ resp.status = 200
    /\ resp.body.totalNotifications = Cardinality(DOMAIN notifications)
    /\ resp.body.activeProducts = Cardinality(DOMAIN ActiveProducts)
    /\ resp.body.totalCustomers = Cardinality(DOMAIN customers)
    /\ resp.body.thisWeek =
         Cardinality({id \in DOMAIN notifications :
                        notifications[id].timestamp >= resp.req.now - oneWeek})
    /\ resp.body.thisWeek <= resp.body.totalNotifications

\* C19's case: the stats were asked for more than a week after the two stored
\* notifications were created.
C19_Witness ==
  /\ resp.op = "GET /api/stats"
  /\ resp.body.totalNotifications = 2
  /\ resp.body.thisWeek = 0
  /\ resp.body.activeProducts = 4
  /\ resp.body.totalCustomers = 4
  /\ \A id \in DOMAIN notifications :
       notifications[id].timestamp < resp.req.now - oneWeek

\* The update of record id of the map before with the fields of updates gave
\* the map after and returned ret: with id in the map, the record has every
\* field of updates at the value given and every other field as it was, it is
\* what is returned, and no other record changed; with id not in the map,
\* nothing is returned and the map is as it was.
Merges(before, after, id, updates, ret) ==
  IF id \in DOMAIN before
  THEN /\ DOMAIN after = DOMAIN before
       /\ \A other \in DOMAIN before \ {id} : after[other] = before[other]
       /\ DOMAIN after[id] = DOMAIN before[id] \cup DOMAIN updates
       /\ \A key \in DOMAIN updates : after[id][key] = updates[key]
       /\ \A key \in DOMAIN before[id] \ DOMAIN updates :
            after[id][key] = before[id][key]
       /\ ret = Some(after[id])
  ELSE after = before /\ ret = None

\* C20: PUT on /api/customers/:id, /api/products/:id and /api/templates/:id
\* with valid partial fields: when the id is stored, the record afterwards has
\* the provided fields at the provided values and the other fields unchanged,
\* and it is returned with 200; when it is not, the answer is 404 and the store
\* is unchanged.
C20_UpdateMerges ==
  [][(/\ nreq' = nreq + 1
      /\ resp'.op \in {"PUT /api/customers/:id", "PUT /api/products/:id",
                       "PUT /api/templates/:id"}
      /\ resp'.req.body.valid)
     => LET id == resp'.req.id
            updates == resp'.req.body.data
            ret == IF resp'.status = 200 THEN resp'.body ELSE None
        IN  /\ resp'.status \in {200, 404}
            /\ resp'.status = 404 <=>
                 id \notin DOMAIN (CASE resp'.op = "PUT /api/customers/:id"
                                          -> customers
                                     [] resp'.op = "PUT /api/products/:id"
                                          -> products
                                     [] OTHER -> notificationTemplates)
            /\ CASE resp'.op = "PUT /api/customers/:id" ->
                      /\ Merges(customers, customers', id, updates, ret)
                      /\ UNCHANGED <<products, notificationTemplates>>
                 [] resp'.op = "PUT /api/products/:id" ->
                      /\ Merges(products, products', id, updates, ret)
                      /\ UNCHANGED <<customers, notificationTemplates>>
                 [] OTHER ->
                      /\ Merges(notificationTemplates, notificationTemplates',
                                id, updates, ret)
                      /\ UNCHANGED <<customers, products>>
            /\ UNCHANGED <<notifications, currentCustomerId, currentProductId,
                           currentNotificationId,
                           currentNotificationTemplateId>>]_vars

\* C20's case: customer 2 was given a new name and phone number, and has
\* them with the email it had.
C20_Witness ==
  /\ resp.op = "PUT /api/customers/:id"
  /\ resp.req.id = 2
  /\ resp.req.body.data = [name |-> anaName, phoneNumber |-> anaPhone]
  /\ resp.status = 200
  /\ customers[2] = [id |-> 2, name |-> anaName,
                     email |-> sampleCustomers[2].email,
                     phoneNumber |-> anaPhone]
  /\ resp.body = Some(customers[2])

\* The list holds the record.
Lists(list, record) == \E i \in 1..Len(list) : list[i] = record

\* C21: a product created without isActive is stored with isActive = 1 and is
\* in the list of active products, a template created without isDefault is
\* stored with isDefault = 0, the optional texts that are omitted (product
\* description, storeLink, thumbnailUrl, template description) are stored as
\* null, and an isActive or isDefault that is supplied is kept.
C21_CreateDefaults ==
  [][/\ Requested("createProduct") =>
          LET product == resp'.body[1]
              insertProduct == resp'.req.insertProduct
          IN  /\ getProduct(products', product.id) = Some(product)
              /\ product.name = insertProduct.name
              /\ IF "isActive" \in DOMAIN insertProduct
                 THEN product.isActive = insertProduct.isActive
                 ELSE /\ product.isActive = 1
                      /\ Lists(getActiveProducts(products'), product)
              /\ \A key \in {"description", "storeLink", "thumbnailUrl"}
                              \ DOMAIN insertProduct :
                   product[key] = None
     /\ Requested("createNotificationTemplate") =>
          LET template == resp'.body[1]
              insertTemplate == resp'.req.insertTemplate
          IN  /\ getNotificationTemplate(notificationTemplates', template.id)
                   = Some(template)
              /\ template.isDefault =
                   (IF "isDefault" \in DOMAIN insertTemplate
                    THEN insertTemplate.isDefault ELSE 0)
              /\ "description" \notin DOMAIN insertTemplate =>
                   template.description = None]_vars

\* C21's case: a product was created from a name alone.
C21_Witness ==
  /\ resp.op = "createProduct"
  /\ resp.req.insertProduct = [name |-> anaName]
  /\ products[5] = [id |-> 5, name |-> anaName, description |-> None,
                    storeLink |-> None, thumbnailUrl |-> None, isActive |-> 1]
  /\ Lists(getActiveProducts(products), products[5])

\* The four kinds of record, the collection of each and its DELETE route.
Kinds == {"customers", "products", "notifications", "notificationTemplates"}
Collection(kind) ==
  CASE kind = "customers" -> customers
    [] kind = "products" -> products
    [] kind = "notifications" -> notifications
    [] kind = "notificationTemplates" -> notificationTemplates
DeleteRoute(kind) ==
  CASE kind = "customers" -> "DELETE /api/customers/:id"
    [] kind = "products" -> "DELETE /api/products/:id"
    [] kind = "notifications" -> "DELETE /api/notifications/:id"
    [] kind = "notificationTemplates" -> "DELETE /api/templates/:id"
\* The other collections and all four counters are as they were.
OthersUnchanged(kind) ==
  /\ kind # "customers" => customers' = customers
  /\ kind # "products" => products' = products
  /\ kind # "notifications" => notifications' = notifications
  /\ kind # "notificationTemplates" =>
       notificationTemplates' = notificationTemplates
  /\ UNCHANGED <<currentCustomerId, currentProductId, currentNotificationId,
                 currentNotificationTemplateId>>

\* C22: deleting an id that is not stored, for each of the four kinds, is
\* answered not found (404) and leaves every collection and every id counter
\* as it was.
C22_DeleteAbsentNotFound ==
  [][\A kind \in Kinds :
       (Requested(DeleteRoute(kind))
          /\ resp'.req.id \notin DOMAIN Collection(kind))
       => /\ resp'.status = 404
          /\ UNCHANGED store]_vars

\* C22's case: a template id that is not stored was deleted, after a request
\* that created a record.
C22_Witness ==
  /\ resp.op = "DELETE /api/templates/:id"
  /\ resp.req.id = 0
  /\ resp.status = 404
  /\ 5 \in DOMAIN customers

\* C23: deleting an id that is stored is answered with an empty 204, removes
\* exactly that record, leaves the other records of the collection, the other
\* collections and all counters as they were, and afterwards a get or a delete
\* of the same id finds nothing.
C23_DeletePresentRemovesOne ==
  [][\A kind \in Kinds :
       (Requested(DeleteRoute(kind))
          /\ resp'.req.id \in DOMAIN Collection(kind))
       => LET id == resp'.req.id
              before == Collection(kind)
              after == Collection(kind)'
          IN  /\ resp'.status = 204
              /\ resp'.body = <<>>
              /\ DOMAIN after = DOMAIN before \ {id}
              /\ \A other \in DOMAIN after : after[other] = before[other]
              /\ OthersUnchanged(kind)
              /\ MapGet(after, id) = None
              /\ CASE kind = "customers" ->
                        /\ getCustomer(after, id) = None
                        /\ ~deleteCustomer(after, id).ret
                   [] kind = "products" ->
                        /\ getProduct(after, id) = None
                        /\ ~deleteProduct(after, id).ret
                   [] kind = "notifications" ->
                        /\ getNotification(after, id) = None
                        /\ ~deleteNotification(after, id).ret
                   [] kind = "notificationTemplates" ->
                        /\ getNotificationTemplate(after, id) = None
                        /\ ~deleteNotificationTemplate(after, id).ret]_vars

\* C23's case: the stored product 1 was deleted.
C23_Witness ==
  /\ resp.op = "DELETE /api/products/:id"
  /\ resp.req.id = 1
  /\ resp.status = 204
  /\ DOMAIN products = {2, 3, 4}

\* The statuses of a request that is answered with an error.
errorStatuses == {400, 404, 500}

\* C24: a request that is answered 400, 404 or 500 leaves all four collections
\* and all four id counters as they were before the request.
C24_ErrorLeavesStore ==
  [][(nreq' = nreq + 1 /\ resp'.status \in errorStatuses)
       => UNCHANGED store]_vars

\* C24's case: after a customer was created, a second request with its email
\* was answered 400.
C24_Witness ==
  /\ resp.op = "POST /api/customers"
  /\ resp.status = 400
  /\ resp.req.body.valid
  /\ 5 \in DOMAIN customers
  /\ customers[5].email = resp.req.body.data.email

\* C25: a PUT /api/templates/:id, whatever its body, leaves the id and the
\* createdAt of every stored template as they were, the one it updates
\* included.
C25_TemplateIdentityKept ==
  [][Requested("PUT /api/templates/:id")
       => \A id \in DOMAIN notificationTemplates :
            /\ id \in DOMAIN notificationTemplates'
            /\ notificationTemplates'[id].id = id
            /\ notificationTemplates'[id].createdAt
                 = notificationTemplates[id].createdAt]_vars

\* C25's case: a template was created by a request, and a PUT on it whose body
\* also carries an id and a createdAt was answered 200.
C25_Witness ==
  /\ resp.op = "PUT /api/templates/:id"
  /\ resp.req.id = 4
  /\ resp.req.unknown = [id |-> 9, createdAt |-> 7]
  /\ resp.status = 200
  /\ resp.body[1].name = anaName
  /\ resp.body[1].id = 4

\* The emails of the README's four sample customers, by id.
readmeEmails ==
  <<<<"j","o","h","n","@","e","x","a","m","p","l","e",".","c","o","m">>,
    <<"s","a","r","a","h","@","e","x","a","m","p","l","e",".","c","o","m">>,
    <<"m","i","k","e","@","e","x","a","m","p","l","e",".","c","o","m">>,
    <<"e","m","i","l","y","@","e","x","a","m","p","l","e",".","c","o","m">>>>

\* C27: before the first request the store holds exactly customers 1..4 with
\* the README's four emails, products 1..4, all active, templates 1..3 and no
\* notification; and the README's example POST /api/notifications (productIds
\* [1, 2], customerIds [1, 2, 3]) made as the first request is answered 201
\* and creates exactly three notifications, with ids 1, 2, 3, for customers
\* 1, 2, 3.
C27_SampleDataServesReadme ==
  [][nreq = 0 =>
       /\ DOMAIN customers = 1..4
       /\ \A id \in 1..4 : /\ customers[id].id = id
                           /\ customers[id].email = readmeEmails[id]
       /\ DOMAIN products = 1..4
       /\ \A id \in 1..4 : products[id].id = id /\ products[id].isActive = 1
       /\ DOMAIN notificationTemplates = 1..3
       /\ \A id \in 1..3 : notificationTemplates[id].id = id
       /\ DOMAIN notifications = {}
       /\ (Requested("POST /api/notifications")
             /\ resp'.req.body = readmeBody)
          => /\ resp'.status = 201
             /\ Len(resp'.body) = 3
             /\ \A i \in 1..3 : /\ resp'.body[i].id = i
                                /\ resp'.body[i].customerId = i
                                /\ notifications'[i] = resp'.body[i]
             /\ DOMAIN notifications' = 1..3]_vars

\* C27's case: the README's request was the first request and three
\* notifications are stored.
C27_Witness ==
  /\ nreq = 1
  /\ resp.op = "POST /api/notifications"
  /\ resp.req.body = readmeBody
  /\ resp.status = 201
  /\ DOMAIN notifications = 1..3

\* C28: a notification created by a POST /api/notifications whose body has a
\* message field has that message as its text.
C28_MessageCarried ==
  [][(/\ Requested("POST /api/notifications")
      /\ resp'.status = 201
      /\ "message" \in DOMAIN resp'.req.body)
     => /\ resp'.body # <<>>
        /\ \A i \in 1..Len(resp'.body) :
             /\ resp'.body[i].notificationBody = resp'.req.body.message
             /\ notifications'[resp'.body[i].id].notificationBody
                  = resp'.req.body.message]_vars

\* The stored customers with this email.
CustomersWith(email) == {id \in DOMAIN customers : customers[id].email = email}

\* C26: of the POST /api/customers requests that carry the same new email
\* (one no sample customer has) at most one is answered 201, so at most one
\* customer with that email is stored, the handlers in flight together
\* included.
C26_OneCustomerPerNewEmail == Cardinality(CustomersWith(anaEmail)) <= 1

\* C29: every POST /api/notifications answered 201 returns as many
\* notifications as customerIds has entries, the i-th for the i-th entry, also
\* when a DELETE /api/customers/:id runs while its handler is suspended.
C29_OnePerEntry ==
  [][(Requested("POST /api/notifications") /\ resp'.status = 201)
     => LET customerIds == resp'.req.body.customerIds.items
        IN  /\ Len(resp'.body) = Len(customerIds)
            /\ \A i \in 1..Len(customerIds) :
                 resp'.body[i].customerId = customerIds[i]]_vars

\* The id counter of a kind.
Counter(kind) ==
  CASE kind = "customers" -> currentCustomerId
    [] kind = "products" -> currentProductId
    [] kind = "notifications" -> currentNotificationId
    [] kind = "notificationTemplates" -> currentNotificationTemplateId

\* C30: in every state, the handlers interleaved at their awaits included,
\* each stored record of each kind has the key it is stored under as its id
\* (so the stored ids are distinct), and every stored id is at least 1 and
\* below the kind's id counter.
C30_IdsAreKeysBelowCounter ==
  \A kind \in Kinds :
    \A key \in DOMAIN Collection(kind) :
      /\ Collection(kind)[key].id = key
      /\ key >= 1
      /\ key < Counter(kind)

\* C30's case: two POST /api/notifications were in flight together and each
\* has stored a notification while the other was suspended.
C30_Witness ==
  /\ Len(tasks) = 2
  /\ \A k \in 1..2 : /\ tasks[k].op = "POST /api/notifications"
                     /\ Len(tasks[k].created) = 1
  /\ tasks[2].created[1].id = 1
  /\ tasks[1].created[1].id = 2
  /\ DOMAIN notifications = {1, 2}

====
